---- MODULE Spec2Model ----
(***************************************************************************)
(* A model of the Elvis protocol-stack simulator: the Machine tick         *)
(* (core/machine.rs), the link-layer tap (protocols/nic.rs), Ipv4          *)
(* (protocols/ipv4.rs) and Udp (protocols/udp.rs), driven by the Internet  *)
(* run loop over broadcast networks.                                       *)
(*                                                                         *)
(* Messages are sequences of bytes (0..255).  A Control is a function      *)
(* from a set of key names to values.  A session is referred to by the     *)
(* key under which its protocol's table holds it.                          *)
(***************************************************************************)
EXTENDS Integers, Sequences, FiniteSets, TLC

----------------------------------------------------------------------------
\* Bounds of the model.

\* Frames the environment (machines outside the model) puts on the networks.
MaxInject == 2
\* Protocol API calls (listen, open, send) the applications make in all.
MaxCalls == 2
\* Ticks of the Internet run loop.
MaxTicks == 2
\* Calls made on the Nic alone.
MaxTapCalls == 4
\* Calls made on Ipv4 alone.
MaxIpCalls == 4
\* Bytes of the longest input of the IPv4 header parser.
MaxParseLen == 21

----------------------------------------------------------------------------
\* Bytes and big-endian conversions.

U16be(n) == << (n \div 256) % 256, n % 256 >>

U32be(n) == << (n \div 16777216) % 256, (n \div 65536) % 256,
               (n \div 256) % 256, n % 256 >>

FromBe2(b) == b[1] * 256 + b[2]

FromBe4(b) == ((b[1] * 256 + b[2]) * 256 + b[3]) * 256 + b[4]

\* Message::with_header, Message::slice(start..) and iter().take(n).
with_header(message, header) == header \o message

slice(message, start) == SubSeq(message, start + 1, Len(message))

take(message, n) == SubSeq(message, 1, IF Len(message) < n THEN Len(message) ELSE n)

----------------------------------------------------------------------------
\* Control: a map from key names to values.

EmptyControl == [k \in {} |-> 0]

insert(control, key, value) ==
    [k \in (DOMAIN control) \cup {key} |-> IF k = key THEN value ELSE control[k]]

Has(control, key) == key \in DOMAIN control

----------------------------------------------------------------------------
\* Protocol identifiers.

ProtocolId(layer, identifier) == [layer |-> layer, identifier |-> identifier]

NicID == ProtocolId("Link", 0)
Ipv4ID == ProtocolId("Network", 4)
UdpID == ProtocolId("Transport", 17)
CaptureID == ProtocolId("User", 0)
OtherAppID == ProtocolId("User", 1)
\* Tcp, which the machines of the model do not hold.
TcpID == ProtocolId("Transport", 6)

AppIds == {CaptureID, OtherAppID}

NetworkLayers == << "Link", "Network", "Transport", "User" >>

LayerCode(layer) == (CHOOSE i \in 1..Len(NetworkLayers) : NetworkLayers[i] = layer) - 1

\* ProtocolId into [u8; 2]: layer << 8 | code, big-endian.
ProtocolIdBytes(id) == << LayerCode(id.layer), id.identifier >>

\* [u8; 2] try_into ProtocolId: fails on a byte that is no NetworkLayer.
ValidLayerByte(b) == b < Len(NetworkLayers)

ProtocolIdFromBytes(header) == ProtocolId(NetworkLayers[header[1] + 1], header[2])

----------------------------------------------------------------------------
\* Results of calls.  An Err(e) is the name of e; a panic is "Panic".

IsOk(res) == res = "Ok"

----------------------------------------------------------------------------
\* Wire formats.

\* The 16-bit one's-complement checksum of a header whose checksum field is 0.
RECURSIVE SumWords(_)
SumWords(bytes) ==
    IF Len(bytes) < 2 THEN 0
    ELSE FromBe2(bytes) + SumWords(slice(bytes, 2))

Fold16(n) == (n % 65536) + (n \div 65536)

calc_header_checksum(bytes) == 65535 - Fold16(Fold16(SumWords(bytes)))

\* etherparse Ipv4Header::new(payload_len, ttl, protocol, source, destination)
\* followed by calc_header_checksum and write: version 4, IHL 5, no options,
\* identification 0, don't-fragment set.
Ipv4HeaderBytes(payload_len, ttl, protocol, source, destination) ==
    LET front == << 69, 0 >> \o U16be(payload_len + 20) \o << 0, 0, 64, 0 >>
                 \o << ttl, protocol >>
        back == U32be(source) \o U32be(destination)
    IN front \o U16be(calc_header_checksum(front \o << 0, 0 >> \o back)) \o back

\* An etherparse from_slice that does not look at the version.
Ipv4HeaderSlice_from_slice_any_version(header) ==
    /\ Len(header) >= 20
    /\ header[1] % 16 = 5
    /\ FromBe2(SubSeq(header, 3, 4)) >= 20

\* etherparse Ipv4HeaderSlice::from_slice on the (at most 20) bytes taken from
\* the message: 20 bytes, version 4, a header length that fits them, and a
\* total length that covers the header.  The checksum is not verified.
Ipv4HeaderSlice_from_slice(header) ==
    /\ Len(header) >= 20
    /\ header[1] \div 16 = 4
    /\ header[1] % 16 = 5
    /\ FromBe2(SubSeq(header, 3, 4)) >= 20

Ipv4Source(header) == FromBe4(SubSeq(header, 13, 16))

Ipv4Destination(header) == FromBe4(SubSeq(header, 17, 20))

\* The 8-byte UDP header {source port, destination port, length, checksum}.
UdpHeaderBytes(source_port, destination_port, payload_len) ==
    U16be(source_port) \o U16be(destination_port) \o U16be(payload_len + 8) \o << 0, 0 >>

\* etherparse UdpHeaderSlice::from_slice: the slice holds 8 bytes.
UdpHeaderSlice_from_slice(header_bytes) == Len(header_bytes) >= 8

UdpSourcePort(header_bytes) == FromBe2(SubSeq(header_bytes, 1, 2))

UdpDestinationPort(header_bytes) == FromBe2(SubSeq(header_bytes, 3, 4))

----------------------------------------------------------------------------
\* Keys of the session and listen tables.

NicSessionId(upstream, network) == [upstream |-> upstream, network |-> network]

Identifier(local, remote) == [local |-> local, remote |-> remote]

UdpSessionId(local_address, local_port, remote_address, remote_port) ==
    [local_address |-> local_address, local_port |-> local_port,
     remote_address |-> remote_address, remote_port |-> remote_port]

ListenId(address, port) == [address |-> address, port |-> port]

NoSession == [none |-> TRUE]

----------------------------------------------------------------------------
\* The call chains.  A handler takes the state of one machine during a call
\* chain (st) and returns it as the call leaves it:
\*   protocols        the machine's protocol table (its ids)
\*   nic              Nic.sessions: NicSessionId -> queue of outgoing messages
\*   ipl, ips         Ipv4.listen_bindings and Ipv4.sessions
\*   udl, uds         Udp.listen_bindings and Udp.sessions
\*   info             the ProtocolContext's Control
\*   current_session  the ProtocolContext's current session
\*   log              the calls made into upper protocols, in order
\*   res              the result of the call
\*   ret              the session an open returned

Event(call, proto, message, info) ==
    [call |-> call, proto |-> proto, message |-> message, info |-> info]

Fail(st, error) == [st EXCEPT !.res = error]

\* UserProcess::demux hands the message to Application::recv.
App_demux(st, app, message) ==
    [st EXCEPT !.log = Append(@, Event("recv", app, message, st.info)),
               !.res = "Ok"]

\* UdpSession::receive hands the message to the upstream protocol's demux.
UdpSession_receive(st, session_id, message) ==
    LET upstream == st.uds[session_id].upstream
    IN IF upstream \notin st.protocols THEN Fail(st, "Panic")
       ELSE App_demux(st, upstream, message)

\* A Udp::demux that writes a port only where the info holds none yet.
Udp_demux_info_once(info, header_bytes) ==
    LET with_local == IF Has(info, "LocalPort") THEN info
                      ELSE insert(info, "LocalPort", UdpDestinationPort(header_bytes))
    IN IF Has(with_local, "RemotePort") THEN with_local
       ELSE insert(with_local, "RemotePort", UdpSourcePort(header_bytes))

\* udp.rs:110-111, 118-119: the ports of the header go into the context info.
Udp_demux_info(info, header_bytes) ==
    insert(insert(info, "LocalPort", UdpDestinationPort(header_bytes)),
           "RemotePort", UdpSourcePort(header_bytes))

\* A Udp::demux that hands the message on with its header.
Udp_demux_body_whole(message) == message

\* udp.rs:120: the message handed on is the one past the 8-byte header.
Udp_demux_body(message) == slice(message, 8)

\* A Udp::demux whose new session has no downstream.
Udp_demux_passive_detached(st, session_id) ==
    LET listen_id == ListenId(session_id.local_address, session_id.local_port)
    IN IF listen_id \in DOMAIN st.udl
       THEN [st EXCEPT !.uds = insert(@, session_id,
                                  [upstream |-> st.udl[listen_id],
                                   downstream |-> NoSession]),
                       !.res = "Ok"]
       ELSE Fail(st, "MissingSession")

\* udp.rs:126-143: no session under the 4-tuple; one is made from the listen
\* binding, with the context's current session as its downstream.
Udp_demux_passive(st, session_id) ==
    LET listen_id == ListenId(session_id.local_address, session_id.local_port)
    IN IF listen_id \in DOMAIN st.udl
       THEN IF st.current_session = NoSession THEN Fail(st, "Panic")
            ELSE [st EXCEPT !.uds = insert(@, session_id,
                                       [upstream |-> st.udl[listen_id],
                                        downstream |-> st.current_session]),
                            !.res = "Ok"]
       ELSE Fail(st, "MissingSession")

\* The state Udp::demux returns in; its result is noted in the log.
Returned(proto, st) ==
    [st EXCEPT !.log = Append(@, [call |-> "return", proto |-> proto, res |-> st.res])]

Udp_demux_inner(st0, message) ==
    LET st == [st0 EXCEPT !.log = Append(@, Event("demux", UdpID, message, st0.info))]
        header_bytes == take(message, 8)
    IN IF ~UdpHeaderSlice_from_slice(header_bytes) THEN Fail(st, "ReadError")
       ELSE IF ~Has(st.info, "LocalAddress") \/ ~Has(st.info, "RemoteAddress")
       THEN Fail(st, "Panic")
       ELSE LET session_id == UdpSessionId(st.info["LocalAddress"],
                                           UdpDestinationPort(header_bytes),
                                           st.info["RemoteAddress"],
                                           UdpSourcePort(header_bytes))
                st1 == [st EXCEPT !.info = Udp_demux_info(@, header_bytes)]
                body == Udp_demux_body(message)
                st2 == IF session_id \in DOMAIN st1.uds THEN [st1 EXCEPT !.res = "Ok"]
                       ELSE Udp_demux_passive(st1, session_id)
            IN IF IsOk(st2.res) THEN UdpSession_receive(st2, session_id, body)
               ELSE st2

Udp_demux(st, message) == Returned(UdpID, Udp_demux_inner(st, message))

\* The demux of the protocol above Ipv4 or above the Nic.
Upstream_demux(upstream, st, message) ==
    IF upstream = UdpID THEN Udp_demux(st, message)
    ELSE IF upstream = NicID THEN Fail(st, "Demux")
    ELSE App_demux(st, upstream, message)

\* ipv4.rs:226-236: the addresses of the header go into the context info.
Ipv4Session_recv_info(info, header) ==
    insert(insert(info, "RemoteAddress", Ipv4Source(header)),
           "LocalAddress", Ipv4Destination(header))

\* ipv4.rs:237: the message handed on is the one past the 20-byte header.
Ipv4Session_recv_body(message) == slice(message, 20)

Ipv4Session_recv(st, key, message) ==
    LET header == take(message, 20)
    IN IF ~Ipv4HeaderSlice_from_slice(header) THEN Fail(st, "ReadError")
       ELSE LET upstream == st.ips[key].upstream
                st1 == [st EXCEPT !.info = Ipv4Session_recv_info(@, header),
                                  !.current_session = key]
            IN IF upstream \notin st.protocols THEN Fail(st1, "NoSuchProtocol")
               ELSE Upstream_demux(upstream, st1, Ipv4Session_recv_body(message))

\* An Ipv4::demux that keys the session by (source, destination).
Ipv4_demux_identifier_swapped(header) ==
    Identifier(Ipv4Source(header), Ipv4Destination(header))

\* ipv4.rs:118: the session key of an inbound frame.
Ipv4_demux_identifier(header) == Identifier(Ipv4Destination(header), Ipv4Source(header))

\* ipv4.rs:119-121
Ipv4_demux_info(info, header) ==
    insert(insert(info, "LocalAddress", Ipv4Destination(header)),
           "RemoteAddress", Ipv4Source(header))

\* The session the passive open of ipv4.rs:132-137 puts into Ipv4's table.
Ipv4_open_passive(downstream, upstream) ==
    [upstream |-> upstream, downstream |-> downstream]

Ipv4_demux(st0, message, downstream) ==
    LET st == [st0 EXCEPT !.log = Append(@, Event("demux", Ipv4ID, message, st0.info))]
        header == take(message, 20)
    IN IF ~Ipv4HeaderSlice_from_slice(header) THEN Fail(st, "ReadError")
       ELSE LET identifier == Ipv4_demux_identifier(header)
                destination == Ipv4Destination(header)
                st1 == [st EXCEPT !.info = Ipv4_demux_info(@, header)]
            IN IF identifier \in DOMAIN st1.ips
               THEN \* ipv4.rs:125: the result of recv is dropped
                    [Ipv4Session_recv(st1, identifier, message) EXCEPT !.res = "Ok"]
               ELSE IF destination \in DOMAIN st1.ipl
               THEN LET binding == st1.ipl[destination]
                    IN IF binding \notin st1.protocols THEN Fail(st1, "NoSuchProtocol")
                       ELSE Ipv4Session_recv(
                                [st1 EXCEPT !.ips = insert(@, identifier,
                                                  Ipv4_open_passive(downstream, binding))],
                                identifier, message)
               ELSE Fail(st1, "MissingListenBinding")

\* nic.rs:162-165
take_header(message) == take(message, 2)

\* nic.rs:71-73: the arrival network goes into the context info.
Nic_accept_incoming_info(info, network) == insert(info, "NetworkIndex", network)

\* An accept_incoming that hands the frame on with its header.
Nic_accept_incoming_body_whole(message) == message

\* nic.rs:74: the message handed on is the one past the 2-byte header.
Nic_accept_incoming_body(message) == slice(message, 2)

\* An accept_incoming that writes the NetworkIndex before it looks at the frame.
Nic_accept_incoming_eager(st0, message, network) ==
    LET header == take_header(message)
        st == [st0 EXCEPT !.info = Nic_accept_incoming_info(@, network)]
    IN IF Len(header) < 2 THEN Fail(st, "HeaderLength")
       ELSE IF ~ValidLayerByte(header[1]) THEN Fail(st, "InvalidProtocolId")
       ELSE LET protocol_id == ProtocolIdFromBytes(header)
                body == Nic_accept_incoming_body(message)
            IN IF protocol_id \notin st.protocols THEN Fail(st, "ProtocolNotFound")
               ELSE IF protocol_id = Ipv4ID
               THEN Ipv4_demux(st, body, NicSessionId(protocol_id, network))
               ELSE Upstream_demux(protocol_id, st, body)

Nic_accept_incoming(st, message, network) ==
    LET header == take_header(message)
    IN IF Len(header) < 2 THEN Fail(st, "HeaderLength")
       ELSE IF ~ValidLayerByte(header[1]) THEN Fail(st, "InvalidProtocolId")
       ELSE LET protocol_id == ProtocolIdFromBytes(header)
                st1 == [st EXCEPT !.info = Nic_accept_incoming_info(@, network)]
                body == Nic_accept_incoming_body(message)
            IN IF protocol_id \notin st.protocols THEN Fail(st, "ProtocolNotFound")
               ELSE IF protocol_id = Ipv4ID
               THEN Ipv4_demux(st1, body, NicSessionId(protocol_id, network))
               ELSE Upstream_demux(protocol_id, st1, body)

----------------------------------------------------------------------------
\* The calls an application makes: listen, open and send.

\* A Primitive::U8: control values are numbers, a wider primitive is one
\* that no u8 holds.
IsU8(value) == value \in 0..255

\* A Nic::open_active that makes a new session whatever the table holds.
Nic_open_active_fresh(st, requester, identifier) ==
    IF ~Has(identifier, "NetworkIndex") \/ ~IsU8(identifier["NetworkIndex"])
    THEN Fail(st, "IdentifierMissingKey")
    ELSE LET session_id == NicSessionId(requester, identifier["NetworkIndex"])
         IN [st EXCEPT !.nic = insert(@, session_id, << >>),
                       !.ret = session_id,
                       !.res = "Ok"]

\* nic.rs:85-107: the session of (requester, network), made if there is none.
Nic_open_active(st, requester, identifier) ==
    IF ~Has(identifier, "NetworkIndex") THEN Fail(st, "IdentifierMissingKey")
    ELSE IF ~IsU8(identifier["NetworkIndex"]) THEN Fail(st, "IdentifierMissingKey")
    ELSE LET session_id == NicSessionId(requester, identifier["NetworkIndex"])
         IN [st EXCEPT !.nic = IF session_id \in DOMAIN @ THEN @
                                ELSE insert(@, session_id, << >>),
                       !.ret = session_id,
                       !.res = "Ok"]

\* nic.rs:197-202: the framed message joins the session's outgoing queue.
NicSession_send(st, session_id, message) ==
    [st EXCEPT !.nic[session_id] =
                   Append(@, with_header(message, ProtocolIdBytes(session_id.upstream))),
               !.res = "Ok"]

\* nic.rs:109-116
Nic_open_passive(st, invoker, identifier) == Fail(st, "PassiveOpen")

\* An Ipv4Session::send that takes every upstream that is not Tcp for Udp.
Ipv4Session_send_ip_number_any(upstream) == IF upstream = TcpID THEN 6 ELSE 17

\* ipv4.rs:180-190: the IpNumber of the session's upstream, -1 where the
\* match ends in Err(UnknownUpstreamProtocol).
Ipv4Session_send_ip_number(upstream) ==
    IF upstream = TcpID THEN 6
    ELSE IF upstream = UdpID THEN 17
    ELSE -1

\* ipv4.rs:173-210: the header is built from the session's identifier, and
\* the message with it is sent on the downstream session.
Ipv4Session_send(st, key, message) ==
    LET length == Len(message)
        ip_number == Ipv4Session_send_ip_number(st.ips[key].upstream)
    IN IF ip_number = -1 THEN Fail(st, "UnknownUpstreamProtocol")
       ELSE NicSession_send(st, st.ips[key].downstream,
                with_header(message,
                    Ipv4HeaderBytes(length, 30, ip_number, key.local, key.remote)))

\* A Nic::demux that treats the message as one coming in off the network.
Nic_demux_accept(st, message) == Nic_accept_incoming(st, message, 0)

\* nic.rs:128-134
Nic_demux(st, message) == Fail(st, "Demux")

\* A NicSession::outgoing that returns the queue and keeps it.
NicSession_outgoing_kept(queue) == queue

\* nic.rs:187-189: mem::take leaves the empty queue behind.
NicSession_outgoing_left(queue) == << >>

\* nic.rs:187-189: the queue is what outgoing() returns.
NicSession_outgoing(st, session_id) ==
    [st EXCEPT !.nic[session_id] = NicSession_outgoing_left(@),
               !.ret = st.nic[session_id],
               !.res = "Ok"]

\* An Ipv4::open_active that puts its session over the one the key has.
Ipv4_open_active_replace(st, upstream, participants) ==
    IF ~Has(st.info, "LocalAddress") THEN Fail(st, "MissingSourceAddress")
    ELSE IF ~Has(st.info, "RemoteAddress") THEN Fail(st, "MissingDestinationAddress")
    ELSE LET key == Identifier(st.info["LocalAddress"], st.info["RemoteAddress"])
             opened == Nic_open_active(st, Ipv4ID, insert(participants, "NetworkIndex", 0))
         IN [opened EXCEPT !.ips = insert(@, key, [upstream |-> upstream,
                                                   downstream |-> opened.ret]),
                           !.ret = key]

\* ipv4.rs:36-38: the control the connection identifier is read from.
Ipv4_open_active_key_source(st, participants) == st.info

Ipv4_open_active(st, upstream, participants) ==
    LET source == Ipv4_open_active_key_source(st, participants)
    IN IF ~Has(source, "LocalAddress") THEN Fail(st, "MissingSourceAddress")
       ELSE IF ~Has(source, "RemoteAddress") THEN Fail(st, "MissingDestinationAddress")
       ELSE LET key == Identifier(source["LocalAddress"], source["RemoteAddress"])
            IN IF key \in DOMAIN st.ips THEN Fail(st, "SessionExists")
               ELSE IF NicID \notin st.protocols THEN Fail(st, "NoSuchProtocol")
               ELSE LET opened == Nic_open_active(st, Ipv4ID,
                                      insert(participants, "NetworkIndex", 0))
                    IN IF ~IsOk(opened.res) THEN opened
                       ELSE [opened EXCEPT !.ips = insert(@, key,
                                                [upstream |-> upstream,
                                                 downstream |-> opened.ret]),
                                           !.ret = key]

\* An Ipv4::listen that rebinds a bound local address.
Ipv4_listen_rebind(st, local, upstream) ==
    [st EXCEPT !.ipl = insert(@, local, upstream), !.res = "Ok"]

\* ipv4.rs:99-104: a bound local address is an error, a free one is bound.
Ipv4_listen_bind(st, local, upstream) ==
    IF local \in DOMAIN st.ipl THEN Fail(st, "BindingExists")
    ELSE [st EXCEPT !.ipl = insert(@, local, upstream), !.res = "Ok"]

Ipv4_listen(st, upstream, participants) ==
    IF ~Has(participants, "LocalAddress") THEN Fail(st, "MissingSourceAddress")
    ELSE Ipv4_listen_bind(st, participants["LocalAddress"], upstream)

UdpKeys == {"LocalAddress", "LocalPort", "RemoteAddress", "RemotePort"}

Udp_open(st, upstream, participants) ==
    IF ~(UdpKeys \subseteq DOMAIN participants) THEN Fail(st, "Panic")
    ELSE LET identifier == UdpSessionId(participants["LocalAddress"],
                                        participants["LocalPort"],
                                        participants["RemoteAddress"],
                                        participants["RemotePort"])
         IN IF identifier \in DOMAIN st.uds THEN Fail(st, "SessionExists")
            ELSE IF Ipv4ID \notin st.protocols THEN Fail(st, "Panic")
            ELSE LET opened == Ipv4_open_active(st, UdpID, participants)
                 IN IF ~IsOk(opened.res) THEN opened
                    ELSE [opened EXCEPT !.uds = insert(@, identifier,
                                                  [upstream |-> upstream,
                                                   downstream |-> opened.ret]),
                                        !.ret = identifier]

\* udp.rs:91: the binding is written into Udp's listen table.
Udp_listen_bind(listen_bindings, identifier, upstream) ==
    insert(listen_bindings, identifier, upstream)

Udp_listen(st, upstream, participants) ==
    IF ~({"LocalAddress", "LocalPort"} \subseteq DOMAIN participants)
    THEN Fail(st, "Panic")
    ELSE LET identifier == ListenId(participants["LocalAddress"],
                                    participants["LocalPort"])
             st1 == [st EXCEPT !.udl = Udp_listen_bind(@, identifier, upstream)]
         IN IF Ipv4ID \notin st.protocols THEN Fail(st1, "Panic")
            ELSE Ipv4_listen(st1, UdpID, participants)

----------------------------------------------------------------------------
\* The state of the simulation.

VARIABLES
    attach,        \* Internet: machine -> the networks it is attached to, in order
    protocols,     \* Machine.protocols: machine -> the ids in its protocol table
    nic,           \* machine -> Nic.sessions
    ipl,           \* machine -> Ipv4.listen_bindings
    ips,           \* machine -> Ipv4.sessions
    udl,           \* machine -> Udp.listen_bindings
    uds,           \* machine -> Udp.sessions
    networks,      \* network -> [current, pending]: the messages machines pick up
                   \* in this tick, and those sent during it
    tick,          \* the number of the tick the run loop is in
    turn,          \* the machine whose Machine::awake runs or is next
    phase,         \* "loop", "tick" (inside Machine::awake), "advance", "crashed"
    inbox,         \* Machine::awake: the pending messages not yet dispatched
    info,          \* Machine::awake: the info of its ProtocolContext
    to_awake,      \* Machine::awake: the protocols its loop has yet to awake
    awoken,        \* Machine::awake: protocol -> what its awake calls returned, in order
    control_flow,  \* Machine::awake: the flow it will return
    flows,         \* machine -> the flow its tick returned in this round
    ended,         \* the run loop has stopped
    injected,      \* frames the environment has sent so far
    history,       \* the listen, open and send calls made so far, with their results
    published,     \* the Network::send calls of this round: message, sender, network
    in_flight,     \* those of the round before
    delivered,     \* this round's calls of Nic::accept_incoming: message and machine
    started,       \* the calls of Machine::awake made: machine and tick
    end_ticks,     \* the ticks in which some protocol's awake returned EndSimulation
    dispatch_log,  \* Machine::awake: the messages that were pending as it began, and
                   \* those it has given to accept_incoming, in order
    apps,          \* the applications' fields: capture.message (no message or one),
                   \* capture.did_set_up, send_message.did_set_up
    borrows,       \* the call chain in progress: the objects it holds borrowed
    crawl,         \* the crawler: its queue, its lists, the call in progress
    last           \* what the last step did

vars == << attach, protocols, nic, ipl, ips, udl, uds, networks, tick, turn, phase,
           inbox, info, to_awake, awoken, control_flow, flows, ended, injected,
           history, published, in_flight, delivered, started, end_ticks,
           dispatch_log, apps, borrows, crawl, last >>

Machines == DOMAIN attach

Networks == DOMAIN networks

EmptyMap == [k \in {} |-> 0]

NoStep == [kind |-> "none"]

\* No call chain in progress, none made yet.
NoBorrows == [stack |-> << >>, recv |-> "store", panicked |-> FALSE, chains |-> 0]

\* The crawler before main has read its arguments.
NoCrawl == [pc |-> "main"]

\* The variables of the simulated machines, which the call-chain and crawler
\* steps leave alone.
machine_vars == << attach, protocols, nic, ipl, ips, udl, uds, networks, tick, turn,
                   phase, inbox, info, to_awake, awoken, control_flow, flows, ended,
                   injected, history, published, in_flight, delivered, started,
                   end_ticks, dispatch_log, apps >>

NoDispatch == [arrived |-> << >>, dispatched |-> << >>]

Tables(m) == [nic |-> nic[m], ipl |-> ipl[m], ips |-> ips[m],
              udl |-> udl[m], uds |-> uds[m]]

\* The machine's state as a call chain of Machine::awake enters it.
MachineState(m) ==
    [protocols |-> protocols[m], nic |-> nic[m], ipl |-> ipl[m], ips |-> ips[m],
     udl |-> udl[m], uds |-> uds[m], info |-> info,
     current_session |-> NoSession, log |-> << >>, res |-> "Ok", ret |-> NoSession]

\* The state a call chain leaves behind.
Commit(m, st) ==
    /\ nic' = [nic EXCEPT ![m] = st.nic]
    /\ ipl' = [ipl EXCEPT ![m] = st.ipl]
    /\ ips' = [ips EXCEPT ![m] = st.ips]
    /\ udl' = [udl EXCEPT ![m] = st.udl]
    /\ uds' = [uds EXCEPT ![m] = st.uds]
    /\ info' = st.info

----------------------------------------------------------------------------
\* Networks and the run loop of the Internet.

RECURSIVE Tagged(_, _, _)
\* The messages of a network's current queue that machine m did not send,
\* each with the index the network has among m's networks.
Tagged(queue, m, index) ==
    IF queue = << >> THEN << >>
    ELSE (IF Head(queue).from = m THEN << >>
          ELSE << [network |-> index, message |-> Head(queue).message] >>)
         \o Tagged(Tail(queue), m, index)

RECURSIVE PendingFrom(_, _)
\* MachineContext::pending: the messages pending on the machine's networks.
PendingFrom(m, i) ==
    IF i > Len(attach[m]) THEN << >>
    ELSE Tagged(networks[attach[m][i]].current, m, i - 1) \o PendingFrom(m, i + 1)

pending(m) == PendingFrom(m, 1)

\* Network::send as Machine::awake calls it.
Network_send(network, from, address, message) ==
    [network EXCEPT !.pending =
        Append(@, [from |-> from, address |-> address, message |-> message])]

\* Advancing a network: what was sent during the tick is pending for the next.
Network_advance(network) == [current |-> network.pending, pending |-> << >>]

\* The run loop goes on while no machine's tick returned EndSimulation.
Internet_run_continues == ~ended

Internet_run_start ==
    /\ phase = "loop"
    /\ Internet_run_continues
    /\ tick <= MaxTicks
    /\ phase' = "tick"
    /\ inbox' = pending(turn)
    /\ info' = EmptyControl
    /\ to_awake' = protocols[turn]
    /\ awoken' = [p \in protocols[turn] |-> << >>]
    /\ control_flow' = "Continue"
    /\ started' = started \cup {[machine |-> turn, tick |-> tick]}
    /\ last' = [kind |-> "start", machine |-> turn, pending |-> pending(turn)]
    /\ dispatch_log' = [arrived |-> pending(turn), dispatched |-> << >>]
    /\ UNCHANGED << borrows, crawl,
                    apps, attach, protocols, nic, ipl, ips, udl, uds, networks, tick, turn,
                    flows, ended, injected, history, published, in_flight, delivered,
                    end_ticks >>

Internet_advance ==
    /\ phase = "advance"
    /\ networks' = [n \in Networks |-> Network_advance(networks[n])]
    /\ ended' = (\E m \in Machines : flows[m] = "EndSimulation")
    /\ tick' = tick + 1
    /\ turn' = 1
    /\ phase' = "loop"
    /\ flows' = [m \in Machines |-> "none"]
    /\ in_flight' = published
    /\ published' = {}
    /\ delivered' = {}
    /\ last' = [kind |-> "advance"]
    /\ UNCHANGED << borrows, crawl,
                    apps, dispatch_log, attach, protocols, nic, ipl, ips, udl, uds, inbox, info, to_awake,
                    awoken, control_flow, injected, history, started, end_ticks >>

----------------------------------------------------------------------------
\* Machine::awake, step by step: the pending messages, the protocols' awake,
\* the drain of the Nic's outgoing queues.

\* machine.rs:59: the network index handed to accept_incoming for a message
\* that arrived on the network with index `arrival`.
Machine_awake_network(arrival) == 0

\* A loop over the pending messages that stops at the first error.
Machine_awake_stop_on_error(res, rest) == IF IsOk(res) THEN rest ELSE << >>

\* A tick that takes one pending message only.
Machine_awake_first_only(res, rest) == << >>

\* A loop over the pending messages that loses the message after an error.
Machine_awake_skip_next(res, rest) ==
    IF IsOk(res) \/ rest = << >> THEN rest ELSE Tail(rest)

\* machine.rs:54-67: the messages the loop still dispatches after one whose
\* accept_incoming returned res.
Machine_awake_after_accept(res, rest) == rest

\* A loop over the protocols that breaks once an awake does not return Continue.
Machine_awake_break(remaining, protocol, result) ==
    IF result = "Continue" THEN remaining \ {protocol} ELSE {}

\* machine.rs:70-77: the protocols the loop still awakes after one whose awake
\* returned result.
Machine_awake_rest(remaining, protocol, result) == remaining \ {protocol}

\* A tick whose flow is that of the last awake.
Machine_awake_flow_last(flow, result) ==
    IF result = "EndSimulation" THEN "EndSimulation" ELSE "Continue"

\* machine.rs:71-81: the flow of the tick after an awake returned result.
Machine_awake_flow(flow, result) ==
    IF result = "EndSimulation" THEN "EndSimulation" ELSE flow

Machine_accept_incoming ==
    /\ phase = "tick"
    /\ inbox # << >>
    /\ LET entry == Head(inbox)
           st == Nic_accept_incoming(MachineState(turn), entry.message,
                                     Machine_awake_network(entry.network))
       IN /\ Commit(turn, st)
          /\ phase' = IF st.res = "Panic" THEN "crashed" ELSE "tick"
          /\ inbox' = Machine_awake_after_accept(st.res, Tail(inbox))
          /\ delivered' = delivered \cup
                 {[message |-> entry.message, to |-> turn]}
          /\ last' = [kind |-> "accept", machine |-> turn, message |-> entry.message,
                      network |-> entry.network, res |-> st.res, log |-> st.log,
                      before |-> Tables(turn), info_before |-> info,
                      rest |-> Tail(inbox)]
          /\ dispatch_log' = [dispatch_log EXCEPT !.dispatched =
                                  Append(@, [network |-> entry.network,
                                             message |-> entry.message,
                                             res |-> st.res])]
          \* Capture::recv keeps the message it is given.
          /\ apps' = LET recvs == SelectSeq(st.log, LAMBDA e :
                                      e.call = "recv" /\ e.proto = CaptureID)
                     IN IF recvs = << >> THEN apps
                        ELSE [apps EXCEPT !.capture.message =
                                              << recvs[Len(recvs)].message >>]
    /\ UNCHANGED << borrows, crawl,
                    attach, protocols, networks, tick, turn, to_awake, awoken,
                    control_flow, flows, ended, injected, history, published, in_flight,
                    started, end_ticks >>

\* The bookkeeping of one pass of the loop over the protocols.
Awoke(protocol, result) ==
    /\ to_awake' = Machine_awake_rest(to_awake, protocol, result)
    /\ awoken' = [awoken EXCEPT ![protocol] = Append(@, result)]
    /\ control_flow' = Machine_awake_flow(control_flow, result)
    /\ end_ticks' = IF result = "EndSimulation" THEN end_ticks \cup {tick}
                    ELSE end_ticks

\* An awake that does not wait for the pending messages.
Awakable_early(protocol) ==
    /\ phase = "tick"
    /\ protocol \in to_awake

\* machine.rs:54-70: the loop over the protocols follows the one over the
\* pending messages.
Awakable(protocol) ==
    /\ phase = "tick"
    /\ inbox = << >>
    /\ protocol \in to_awake

\* Nic::awake, Ipv4::awake and Udp::awake return Continue and change nothing.
Protocol_awake ==
    \E protocol \in {NicID, Ipv4ID, UdpID} :
        /\ Awakable(protocol)
        /\ Awoke(protocol, "Continue")
        /\ last' = [kind |-> "awake"]
        /\ UNCHANGED << borrows, crawl,
                        apps, dispatch_log, attach, protocols, nic, ipl, ips, udl, uds, networks, tick,
                        turn, phase, inbox, info, flows, ended, injected, history,
                        published, in_flight, delivered, started >>

\* An application's awake that makes no call and returns the flow it chooses.
App_awake_return ==
    \E app \in AppIds, flow \in {"Continue", "EndSimulation"} :
        /\ Awakable(app)
        /\ Awoke(app, flow)
        /\ last' = [kind |-> "awake"]
        /\ UNCHANGED << borrows, crawl,
                        apps, dispatch_log, attach, protocols, nic, ipl, ips, udl, uds, networks, tick,
                        turn, phase, inbox, info, flows, ended, injected, history,
                        published, in_flight, delivered, started >>

\* An application's awake that makes one call into the stack and returns
\* Continue, or the error of the call (as the ? operator does).
App_awake_call(app, op, participants, st) ==
    /\ Awakable(app)
    /\ Len(history) < MaxCalls
    /\ Commit(turn, st)
    /\ Awoke(app, IF IsOk(st.res) THEN "Continue" ELSE "Err")
    /\ phase' = IF st.res = "Panic" THEN "crashed" ELSE "tick"
    /\ history' = Append(history, [machine |-> turn, op |-> op, upstream |-> app,
                                   participants |-> participants, res |-> st.res])
    /\ last' = [kind |-> "call", machine |-> turn, op |-> op, upstream |-> app,
                participants |-> participants, res |-> st.res,
                before |-> Tables(turn), info_before |-> info]
    /\ UNCHANGED << borrows, crawl,
                    apps, dispatch_log, attach, protocols, networks, tick, turn, inbox, flows, ended,
                    injected, published, in_flight, delivered, started >>

----------------------------------------------------------------------------
\* The inputs of the model.

\* 127.0.0.1 (Ipv4Address::LOCALHOST) and 10.0.0.2
Addresses == { FromBe4(<< 127, 0, 0, 1 >>), FromBe4(<< 10, 0, 0, 2 >>) }

\* The address applications bind and open from: 127.0.0.1
LocalAddresses == { FromBe4(<< 127, 0, 0, 1 >>) }

\* 0xbeef and 0xdead, the ports of Capture and SendMessage
Ports == { FromBe2(<< 190, 239 >>), FromBe2(<< 222, 173 >>) }

\* "Hi"
Payloads == { << 72, 105 >> }

\* A well-formed UDP-in-IPv4 frame as the Nic of a sender queues it.
UdpFrame(source, destination, source_port, destination_port, payload) ==
    LET datagram == with_header(payload,
                        UdpHeaderBytes(source_port, destination_port, Len(payload)))
    IN with_header(with_header(datagram,
                       Ipv4HeaderBytes(Len(datagram), 30, 17, source, destination)),
                   ProtocolIdBytes(Ipv4ID))

\* The remote endpoint of the model's traffic: 10.0.0.2, port 0xdead.
RemoteAddresses == { FromBe4(<< 10, 0, 0, 2 >>) }

RemotePorts == { FromBe2(<< 222, 173 >>) }

UdpFrames ==
    { UdpFrame(source, destination, source_port, destination_port, payload) :
        source \in RemoteAddresses, destination \in Addresses,
        source_port \in RemotePorts, destination_port \in Ports,
        payload \in Payloads }

\* The fields of a well-formed UDP-in-IPv4 frame, read back from its bytes.
FrameDestination(frame) == FromBe4(SubSeq(frame, 19, 22))
FrameSource(frame) == FromBe4(SubSeq(frame, 15, 18))
FrameDestinationPort(frame) == FromBe2(SubSeq(frame, 25, 26))
FrameSourcePort(frame) == FromBe2(SubSeq(frame, 23, 24))
FramePayload(frame) == SubSeq(frame, 31, Len(frame))

----------------------------------------------------------------------------
\* The calls applications make from their awake.

App_awake_udp_listen ==
    \E app \in AppIds, address \in LocalAddresses, port \in Ports :
        LET participants == [LocalAddress |-> address, LocalPort |-> port]
        IN App_awake_call(app, "Udp.listen", participants,
                          Udp_listen(MachineState(turn), app, participants))

App_awake_udp_open ==
    \E app \in {OtherAppID}, local \in LocalAddresses, remote \in RemoteAddresses,
       local_port \in Ports, remote_port \in RemotePorts :
        LET participants == [LocalAddress |-> local, LocalPort |-> local_port,
                             RemoteAddress |-> remote, RemotePort |-> remote_port]
        IN App_awake_call(app, "Udp.open", participants,
                          Udp_open(MachineState(turn), app, participants))

App_awake_ipv4_listen ==
    \E app \in AppIds, address \in LocalAddresses :
        LET participants == [LocalAddress |-> address]
        IN App_awake_call(app, "Ipv4.listen", participants,
                          Ipv4_listen(MachineState(turn), app, participants))

App_awake_ipv4_open ==
    \E app \in {OtherAppID}, local \in LocalAddresses, remote \in RemoteAddresses :
        LET participants == [LocalAddress |-> local, RemoteAddress |-> remote]
        IN App_awake_call(app, "Ipv4.open_active", participants,
                          Ipv4_open_active(MachineState(turn), app, participants))

NetworkIndexes == {0, 1}

\* The message of the count-th call of the run, made on machine m.
SendMessageOf(m, count) == << m, count >>

\* An application opens the Nic session of one of the machine's networks and
\* sends a message on it; the message names its sender and is sent only once.
App_awake_nic_send ==
    \E app \in AppIds, network \in NetworkIndexes :
        LET participants == [NetworkIndex |-> network]
            message == SendMessageOf(turn, Len(history))
            opened == Nic_open_active(MachineState(turn), app, participants)
        IN App_awake_call(app, "NicSession.send", participants,
                          NicSession_send(opened, opened.ret, message))

----------------------------------------------------------------------------
\* The drain at the end of Machine::awake.

NicNetworks(sessions) == { id.network : id \in DOMAIN sessions }

\* nic.rs:49-57 and machine.rs:84: Nic::outgoing lists (network, messages) per
\* session, in the order of the session table, and the list is collected into
\* a map by network: of the sessions of one network, the one listed last stays.
Nic_outgoing_collected(sessions) ==
    { [network \in NicNetworks(sessions) |-> sessions[kept[network]]] :
        kept \in { k \in [NicNetworks(sessions) -> DOMAIN sessions] :
                     \A network \in NicNetworks(sessions) :
                         k[network].network = network } }

\* nic.rs:52-54, 187-189: outgoing() takes every session's queue.
Nic_outgoing_left(sessions) ==
    [id \in DOMAIN sessions |-> NicSession_outgoing_left(sessions[id])]

RECURSIVE Network_send_all(_, _, _)
Network_send_all(network, from, messages) ==
    IF messages = << >> THEN network
    ELSE Network_send_all(Network_send(network, from, "Broadcast", Head(messages)),
                          from, Tail(messages))

\* machine.rs:85-94: the messages collected for index i go to the i-th of the
\* machine's networks.
Machine_awake_publish(nets, m, outgoing) ==
    [n \in DOMAIN nets |->
        IF \E i \in 1..Len(attach[m]) : attach[m][i] = n /\ (i - 1) \in DOMAIN outgoing
        THEN LET i == CHOOSE i \in 1..Len(attach[m]) :
                          attach[m][i] = n /\ (i - 1) \in DOMAIN outgoing
             IN Network_send_all(nets[n], m, outgoing[i - 1])
        ELSE nets[n]]

\* What a drain appended to each network's pending queue, in order.
Appended(before, after) ==
    [n \in DOMAIN after |->
        SubSeq(after[n].pending, Len(before[n].pending) + 1, Len(after[n].pending))]

\* The Network::send calls of a drain, read off the networks: what their
\* pending queues gained.
Sent(before, after) ==
    UNION { { [message |-> after[n].pending[j].message,
               from |-> after[n].pending[j].from, network |-> n] :
              j \in (Len(before[n].pending) + 1)..Len(after[n].pending) } :
            n \in DOMAIN after }

Machine_drain ==
    /\ phase = "tick"
    /\ inbox = << >>
    /\ to_awake = {}
    /\ \E outgoing \in Nic_outgoing_collected(nic[turn]) :
          /\ networks' = Machine_awake_publish(networks, turn, outgoing)
          /\ published' = published \cup Sent(networks, networks')
          /\ last' = [kind |-> "drain", machine |-> turn, flow |-> control_flow,
                      awoken |-> awoken, queued |-> nic[turn],
                      outgoing |-> outgoing, arrived |-> dispatch_log.arrived,
                      dispatched |-> dispatch_log.dispatched,
                      sent |-> Appended(networks, networks')]
    /\ dispatch_log' = NoDispatch
    /\ nic' = [nic EXCEPT ![turn] = Nic_outgoing_left(@)]
    /\ flows' = [flows EXCEPT ![turn] = control_flow]
    /\ IF turn < Len(attach)
       THEN turn' = turn + 1 /\ phase' = "loop"
       ELSE turn' = turn /\ phase' = "advance"
    /\ UNCHANGED << borrows, crawl,
                    apps, attach, protocols, ipl, ips, udl, uds, tick, inbox, info,
                    to_awake, awoken, control_flow, ended, injected, history,
                    in_flight, delivered, started, end_ticks >>

\* A machine outside the model sends a frame on a network: it is pending for
\* the machines of the model in the round about to start.
Inject ==
    \E network \in Networks, frame \in UdpFrames :
        /\ phase = "loop"
        /\ turn = 1
        /\ Internet_run_continues
        /\ injected < MaxInject
        /\ injected' = injected + 1
        /\ networks' = [networks EXCEPT ![network].current =
                            Append(@, [from |-> 0, address |-> "Broadcast",
                                       message |-> frame])]
        /\ last' = [kind |-> "inject", network |-> network, message |-> frame]
        /\ UNCHANGED << borrows, crawl,
                        apps, dispatch_log, attach, protocols, nic, ipl, ips, udl, uds, tick, turn, phase,
                        inbox, info, to_awake, awoken, control_flow, flows, ended,
                        history, published, in_flight, delivered, started, end_ticks >>

----------------------------------------------------------------------------
\* The specifications.

\* What every setup shares: empty tables, empty networks, the first tick ahead.
InitCommon ==
    /\ nic = [m \in Machines |-> EmptyMap]
    /\ ipl = [m \in Machines |-> EmptyMap]
    /\ ips = [m \in Machines |-> EmptyMap]
    /\ udl = [m \in Machines |-> EmptyMap]
    /\ uds = [m \in Machines |-> EmptyMap]
    /\ networks = [n \in {0, 1} |-> [current |-> << >>, pending |-> << >>]]
    /\ tick = 1
    /\ turn = 1
    /\ phase = "loop"
    /\ inbox = << >>
    /\ info = EmptyControl
    /\ to_awake = {}
    /\ awoken = EmptyMap
    /\ control_flow = "Continue"
    /\ flows = [m \in Machines |-> "none"]
    /\ ended = FALSE
    /\ injected = 0
    /\ history = << >>
    /\ published = {}
    /\ in_flight = {}
    /\ delivered = {}
    /\ started = {}
    /\ end_ticks = {}
    /\ dispatch_log = NoDispatch
    /\ apps = [capture |-> [message |-> << >>, did_set_up |-> FALSE],
               send_message |-> [did_set_up |-> FALSE]]
    /\ borrows = NoBorrows
    /\ crawl = NoCrawl
    /\ last = NoStep

\* One machine with the whole stack and two applications, on two networks
\* that machines outside the model send frames on.
Init ==
    /\ attach = << << 0, 1 >> >>
    /\ protocols = << {NicID, Ipv4ID, UdpID, CaptureID, OtherAppID} >>
    /\ InitCommon

Next ==
    \/ Inject
    \/ Internet_run_start
    \/ Machine_accept_incoming
    \/ Protocol_awake
    \/ App_awake_return
    \/ App_awake_udp_listen
    \/ App_awake_udp_open
    \/ App_awake_ipv4_listen
    \/ App_awake_ipv4_open
    \/ Machine_drain
    \/ Internet_advance

Spec == Init /\ [][Next]_vars

\* Three machines with a Nic and one application each, on two networks: the
\* first and the third on both, the second on network 1 only.  Applications
\* send on the Nic sessions of their machine's networks.
InitNet ==
    /\ attach = << << 0, 1 >>, << 1 >>, << 0, 1 >> >>
    /\ protocols = << {NicID, CaptureID}, {NicID, CaptureID}, {NicID, OtherAppID} >>
    /\ InitCommon

NextNet ==
    \/ Internet_run_start
    \/ Machine_accept_incoming
    \/ Protocol_awake
    \/ App_awake_return
    \/ App_awake_nic_send
    \/ Machine_drain
    \/ Internet_advance

SpecNet == InitNet /\ [][NextNet]_vars

\* The machine of Init, with no traffic from outside: its two applications
\* send on the Nic sessions of its two networks.
NextDrain ==
    \/ Internet_run_start
    \/ Protocol_awake
    \/ App_awake_return
    \/ App_awake_nic_send
    \/ Machine_drain
    \/ Internet_advance

SpecDrain == Init /\ [][NextDrain]_vars

----------------------------------------------------------------------------
\* Borrows along a call chain of Machine::awake (SpecBorrow).  Protocols and
\* sessions are shared cells: a call site borrows the callee for the time of
\* the call, and the chain holds every borrow of the calls still running.

MaxChains == 2

Borrow(object, mode, op) == [object |-> object, mode |-> mode, op |-> op]

\* What an application does in its recv: Capture::recv stores the message
\* (capture.rs:56-63); another application opens a Udp session as
\* SendMessage::awake does (send_message.rs:47-50), or sends on the session
\* that delivered the message (send_message.rs:51).
RecvBehaviours == {"store", "open", "reply"}

\* The calls an operation makes, in order, each with the borrow its call site
\* takes.
Calls(op, recv) ==
    CASE op = "Machine::awake pending" ->
            << Borrow("Tap", "write", "Tap::accept_incoming") >>
      [] op = "Tap::accept_incoming" ->
            << Borrow("TapSession", "write", "TapSession::receive") >>
      [] op = "TapSession::receive" ->
            << Borrow("Ipv4", "write", "Ipv4::demux") >>
      [] op = "Ipv4::demux" ->
            << Borrow("Udp", "write", "Udp::open_passive"),
               Borrow("Ipv4Session", "write", "Ipv4Session::recv") >>
      [] op = "Ipv4Session::recv" ->
            << Borrow("Udp", "read", "Udp::demux") >>
      [] op = "Udp::demux" ->
            << Borrow("UdpSession", "write", "UdpSession::receive") >>
      [] op = "UdpSession::receive" ->
            << Borrow("Capture", "write", "Application::recv") >>
      [] op = "Application::recv" ->
            IF recv = "open" THEN << Borrow("Udp", "write", "Udp::open") >>
            ELSE IF recv = "reply"
            THEN << Borrow("UdpSession", "write", "UdpSession::send") >>
            ELSE << >>
      [] op = "Machine::awake Capture" ->
            << Borrow("Capture", "write", "Capture::awake") >>
      [] op = "Machine::awake SendMessage" ->
            << Borrow("SendMessage", "write", "SendMessage::awake") >>
      [] op = "Machine::awake Udp" ->
            << Borrow("Udp", "write", "Udp::awake") >>
      [] op = "Capture::awake" ->
            << Borrow("Udp", "write", "Udp::listen") >>
      [] op = "SendMessage::awake" ->
            << Borrow("Udp", "write", "Udp::open"),
               Borrow("UdpSession", "write", "UdpSession::send") >>
      [] op = "Udp::open" ->
            << Borrow("Ipv4", "write", "Ipv4::open_active") >>
      [] op = "Udp::listen" ->
            << Borrow("Ipv4", "write", "Ipv4::listen") >>
      [] op = "Ipv4::open_active" ->
            << Borrow("Tap", "write", "Tap::open") >>
      [] op = "UdpSession::send" ->
            << Borrow("Ipv4Session", "write", "Ipv4Session::send") >>
      [] op = "Ipv4Session::send" ->
            << Borrow("TapSession", "write", "TapSession::send") >>
      [] OTHER -> << >>

\* The loops of Machine::awake a chain starts from.
ChainRoots == {"Machine::awake pending", "Machine::awake Capture",
               "Machine::awake SendMessage", "Machine::awake Udp"}

\* RefCell::borrow_mut and borrow (RwLock::write and read): a mutable borrow
\* needs the object free, a shared one needs it free of mutable borrows.
borrow_allowed(stack, borrow) ==
    \A i \in 1..Len(stack) :
        stack[i].object = borrow.object =>
            (borrow.mode = "read" /\ stack[i].mode = "read")

\* Machine::awake begins a call chain: the dispatch of a pending message or
\* the awake of a protocol.
Chain_start ==
    /\ crawl = NoCrawl
    /\ borrows.stack = << >>
    /\ ~borrows.panicked
    /\ borrows.chains < MaxChains
    /\ \E root \in ChainRoots, recv \in RecvBehaviours :
          /\ borrows' = [borrows EXCEPT
                            !.stack = << [object |-> "Machine", mode |-> "none",
                                          op |-> root, todo |-> Calls(root, recv)] >>,
                            !.recv = recv, !.chains = @ + 1]
          /\ last' = [kind |-> "chain", root |-> root, recv |-> recv]
    /\ UNCHANGED << machine_vars, crawl >>

\* The operation on top of the chain makes its next call; a borrow that is
\* not allowed panics.
Chain_call ==
    /\ borrows.stack # << >>
    /\ ~borrows.panicked
    /\ LET depth == Len(borrows.stack)
           top == borrows.stack[depth]
       IN /\ top.todo # << >>
          /\ LET borrow == Head(top.todo)
             IN IF borrow_allowed(borrows.stack, borrow)
                THEN borrows' = [borrows EXCEPT !.stack =
                        Append([@ EXCEPT ![depth].todo = Tail(top.todo)],
                               [object |-> borrow.object, mode |-> borrow.mode,
                                op |-> borrow.op,
                                todo |-> Calls(borrow.op, borrows.recv)])]
                ELSE borrows' = [borrows EXCEPT !.panicked = TRUE]
          /\ last' = [kind |-> "borrow", borrow |-> Head(top.todo),
                      from |-> top.op]
    /\ UNCHANGED << machine_vars, crawl >>

\* The operation on top of the chain has made its calls and returns: its
\* borrow ends.
Chain_return ==
    /\ borrows.stack # << >>
    /\ ~borrows.panicked
    /\ borrows.stack[Len(borrows.stack)].todo = << >>
    /\ borrows' = [borrows EXCEPT !.stack = SubSeq(@, 1, Len(@) - 1)]
    /\ last' = [kind |-> "return", op |-> borrows.stack[Len(borrows.stack)].op]
    /\ UNCHANGED << machine_vars, crawl >>

NextBorrow ==
    \/ Chain_start
    \/ Chain_call
    \/ Chain_return

SpecBorrow == Init /\ [][NextBorrow]_vars

\* C34: no call chain of Machine::awake borrows a protocol or session that
\* the chain already holds mutably borrowed, also when an application opens a
\* Udp session or replies on the delivering session inside its recv.
C34_NoReentrantBorrow == ~borrows.panicked

----------------------------------------------------------------------------
\* The crawler of src/tools/scraper (SpecCrawl).  A URL is a number; a page is
\* what extract_urls and extract_images find in its text; the web answers a
\* request with the page or with an error.

MaxUrls == 3

MaxLimit == 2

\* The counters that only observe the crawl stop counting here.
MaxCount == 5

Urls == 1..MaxUrls

\* The URL given with --url.
RootUrl == 1

\* The one image URL of the model.
ImageUrl == 0

\* The links a page can hold, in the order of the page: at most two, with
\* repeats and links of the page to itself.
LinkLists ==
    { << >> } \cup { << u >> : u \in Urls } \cup { << u, v >> : u, v \in Urls }

\* Page::new(size, links, images)
Page(links, images) == [links |-> links, images |-> images]

\* Every page shows the image.
Pages == { Page(links, << ImageUrl >>) : links \in LinkLists }

\* --max: absent, or an integer.
MaxArgs == { << >> } \cup { << n >> : n \in (-1)..MaxLimit }

counted(n) == IF n < MaxCount THEN n + 1 ELSE n

\* main.rs:358-423: the arguments are read, the lists are made, and the crawl
\* begins with the root URL in the queue (main.rs:256-257, 304-305).  A --max
\* that is not positive ends the program.
Scraper_main ==
    /\ crawl = NoCrawl
    /\ borrows = NoBorrows
    /\ \E max \in MaxArgs, dead \in SUBSET Urls :
          LET limit == IF max = << >> THEN 0 ELSE max[1]
          IN /\ crawl' = IF max # << >> /\ max[1] <= 0 THEN [pc |-> "exit"]
                         ELSE [pc |-> "loop", max |-> limit, limit |-> limit,
                               found_urls |-> << RootUrl >>, visited |-> << >>,
                               downloaded |-> {}, baddies |-> << >>,
                               url |-> 0, tries |-> 0, res |-> "None",
                               dead |-> dead, web |-> << >>,
                               attempts |-> 0, successes |-> 0,
                               fetched |-> [u \in Urls |-> 0]]
             /\ last' = [kind |-> "main", max |-> max]
    /\ UNCHANGED << machine_vars, borrows >>

\* A loop that goes on while the limit is not negative.
bfs_scraper_continues_inclusive(found_urls, max, limit) ==
    found_urls # << >> /\ (max = 0 \/ limit >= 0)

\* main.rs:259, 307: the loop condition of bfs_scraper, which main calls for
\* a limit of 0, and of bfs_scraper_with_limit.
bfs_scraper_continues(found_urls, max, limit) ==
    found_urls # << >> /\ (max = 0 \/ limit > 0)

\* main.rs:259-264, 307-312: the loop takes the URL at the front of the queue
\* and asks for it, or ends.
Scraper_pop ==
    /\ crawl.pc = "loop"
    /\ IF bfs_scraper_continues(crawl.found_urls, crawl.max, crawl.limit)
       THEN crawl' = [crawl EXCEPT !.pc = "request",
                                   !.url = Head(crawl.found_urls),
                                   !.found_urls = Tail(crawl.found_urls),
                                   !.tries = 1, !.attempts = 0, !.res = "None"]
       ELSE crawl' = [crawl EXCEPT !.pc = "done"]
    /\ last' = [kind |-> "pop"]
    /\ UNCHANGED << machine_vars, borrows >>

\* An http_requester that starts over after an error.
http_requester_retry_same(tries) == tries

\* main.rs:110-111, 116-117: the count handed to the next try.
http_requester_retry(tries) == tries + 1

\* main.rs:84-120: one level of http_requester.  At tries = 4 the link goes
\* to baddies and the result is None; otherwise a request is sent, and its
\* error leads to the next try.  The page of a URL is fixed by its first
\* answer.
Scraper_http_requester ==
    /\ crawl.pc = "request"
    /\ IF crawl.tries = 4
       THEN /\ crawl' = [crawl EXCEPT !.pc = "loop", !.res = "None",
                                      !.baddies = Append(@, crawl.url)]
            /\ last' = [kind |-> "gave_up", url |-> crawl.url,
                        attempts |-> crawl.attempts, before |-> crawl]
       ELSE \/ /\ crawl.url \notin crawl.dead
               /\ \E page \in Pages :
                     /\ crawl.url \in DOMAIN crawl.web => page = crawl.web[crawl.url]
                     /\ crawl' = [crawl EXCEPT !.pc = "visit", !.res = "Some",
                                               !.web = insert(@, crawl.url, page),
                                               !.attempts = counted(@)]
               /\ last' = [kind |-> "answered", url |-> crawl.url,
                           attempts |-> counted(crawl.attempts), before |-> crawl]
            \/ /\ crawl' = [crawl EXCEPT !.tries = http_requester_retry(@),
                                          !.attempts = counted(@)]
               /\ last' = [kind |-> "error", url |-> crawl.url]
    /\ UNCHANGED << machine_vars, borrows >>

\* A crawl that queues every link of the page.
bfs_scraper_new_urls_all(links, visited) == links

\* main.rs:292-297, 340-344: the links of the page that are not visited are
\* added to the queue.
bfs_scraper_new_urls(links, visited) ==
    SelectSeq(links, LAMBDA new : new \notin DOMAIN visited)

\* main.rs:266-299, 314-348: the page that came back is scraped.  Its images
\* not yet downloaded are requested (a failed download goes to baddies), the
\* page is recorded in visited, its unvisited links are queued, and
\* bfs_scraper_with_limit counts the page.
Scraper_visit ==
    /\ crawl.pc = "visit"
    /\ LET page == crawl.web[crawl.url]
           wanted == SelectSeq(page.images, LAMBDA img : img \notin crawl.downloaded)
           visited == insert(crawl.visited, crawl.url, page)
       IN \E failed \in { << >>, wanted } :
             /\ crawl' = [crawl EXCEPT
                    !.pc = "loop",
                    !.downloaded = IF failed = << >>
                                   THEN @ \cup { wanted[i] : i \in 1..Len(wanted) }
                                   ELSE @,
                    !.baddies = @ \o failed,
                    !.visited = visited,
                    !.found_urls = @ \o bfs_scraper_new_urls(page.links, visited),
                    !.limit = IF crawl.max = 0 THEN @ ELSE @ - 1,
                    !.successes = counted(@),
                    !.fetched[crawl.url] = counted(@)]
             /\ last' = [kind |-> "visit", url |-> crawl.url, before |-> crawl]
    /\ UNCHANGED << machine_vars, borrows >>

NextCrawl ==
    \/ Scraper_main
    \/ Scraper_pop
    \/ Scraper_http_requester
    \/ Scraper_visit

SpecCrawl == Init /\ [][NextCrawl]_vars

\* The program runs on while it has a step to take.
SpecCrawlLive == SpecCrawl /\ WF_vars(NextCrawl)

\* The crawl is under way or over.
Crawling == crawl.pc \in {"loop", "request", "visit", "done"}

\* C37: started with --max n for a positive n, the crawl records at most n
\* pages in visited, asks for no page once n pages have come back, and a URL
\* that http_requester gave up on is not recorded and does not count.
C37_CrawlLimit ==
    (Crawling /\ crawl.max > 0) =>
        /\ Cardinality(DOMAIN crawl.visited) <= crawl.max
        /\ crawl.successes <= crawl.max
        /\ crawl.pc \in {"request", "visit"} => crawl.successes < crawl.max
        /\ last.kind = "gave_up" =>
               /\ crawl.visited = last.before.visited
               /\ crawl.limit = last.before.limit
               /\ crawl.successes = last.before.successes

\* A crawl with --max 2 has ended on its second page with URLs still in the
\* queue, after a URL whose requests all failed.
C37_Witness ==
    /\ crawl.pc = "done"
    /\ crawl.max = 2
    /\ crawl.successes = 2
    /\ crawl.found_urls # << >>
    /\ \E i \in 1..Len(crawl.baddies) : crawl.baddies[i] \in Urls

\* C38: over the whole crawl of bfs_scraper every URL is fetched and scraped
\* at most once, also when several pages link to it before it is processed.
C38_EachUrlOnce ==
    (Crawling /\ crawl.max = 0) => \A u \in Urls : crawl.fetched[u] <= 1

\* C39: http_requester gives up after the first request and three more,
\* adding the link to baddies once and returning None; a request that is
\* answered returns the text and adds nothing to baddies.
C39_RequestRetry ==
    /\ last.kind = "gave_up" =>
           /\ last.attempts = 4
           /\ crawl.baddies = Append(last.before.baddies, last.url)
           /\ crawl.res = "None"
    /\ last.kind = "answered" =>
           /\ crawl.baddies = last.before.baddies
           /\ crawl.res = "Some"

\* C40: on every finite link graph, with cycles, pages linked from many
\* pages and pages whose fetch always fails, bfs_scraper empties its queue and
\* returns.
C40_CrawlTerminates ==
    (crawl.pc = "loop" /\ crawl.max = 0) ~> (crawl.pc = "done")

\* A crawl without limit has ended on a graph with a cycle between two pages,
\* a page that was queued twice and fetched twice, and a page whose requests
\* all fail.
C40_Witness ==
    /\ crawl.pc = "done"
    /\ crawl.max = 0
    /\ \E u, v \in DOMAIN crawl.visited :
          /\ u # v
          /\ \E i \in 1..Len(crawl.visited[u].links) : crawl.visited[u].links[i] = v
          /\ \E i \in 1..Len(crawl.visited[v].links) : crawl.visited[v].links[i] = u
    /\ \E u \in Urls : crawl.fetched[u] >= 2
    /\ \E i \in 1..Len(crawl.baddies) : crawl.baddies[i] \in crawl.dead

----------------------------------------------------------------------------
\* The loopback scenario: SendMessage and Capture on the one machine
\* (SpecLoop).

\* SendMessage::awake: on its first call it opens its Udp session from
\* 127.0.0.1:0xdead to 127.0.0.1:0xbeef and sends "Hello!" on it.
\* UdpSession::send writes the 8-byte header and sends on the Ipv4 session.
SendMessage_awake ==
    /\ Awakable(OtherAppID)
    /\ LET participants == [LocalAddress |-> FromBe4(<< 127, 0, 0, 1 >>),
                            RemoteAddress |-> FromBe4(<< 127, 0, 0, 1 >>),
                            LocalPort |-> FromBe2(<< 222, 173 >>),
                            RemotePort |-> FromBe2(<< 190, 239 >>)]
           text == << 72, 101, 108, 108, 111, 33 >>
           opened == Udp_open(MachineState(turn), OtherAppID, participants)
           datagram == with_header(text,
                           UdpHeaderBytes(participants["LocalPort"],
                                          participants["RemotePort"], Len(text)))
           st == IF apps.send_message.did_set_up THEN MachineState(turn)
                 ELSE IF ~IsOk(opened.res) THEN opened
                 ELSE Ipv4Session_send(opened, opened.uds[opened.ret].downstream,
                                       datagram)
       IN /\ Commit(turn, st)
          /\ Awoke(OtherAppID, IF IsOk(st.res) THEN "Continue" ELSE "Err")
          /\ phase' = IF st.res = "Panic" THEN "crashed" ELSE "tick"
          /\ history' = IF apps.send_message.did_set_up THEN history
                        ELSE Append(history, [machine |-> turn, op |-> "Udp.open",
                                              upstream |-> OtherAppID,
                                              participants |-> participants,
                                              res |-> opened.res])
          /\ last' = [kind |-> "send_message", res |-> st.res,
                      did_set_up |-> apps.send_message.did_set_up,
                      before |-> Tables(turn), info_before |-> info]
    /\ apps' = [apps EXCEPT !.send_message.did_set_up = TRUE]
    /\ UNCHANGED << borrows, crawl,
                    dispatch_log, attach, protocols, networks, tick, turn, inbox,
                    flows, ended, injected, published, in_flight, delivered, started >>

\* Capture::awake: until a listen on 127.0.0.1:0xbeef has succeeded it calls
\* Udp's listen; it returns EndSimulation once it holds a message.
Capture_awake ==
    /\ Awakable(CaptureID)
    /\ LET participants == [LocalAddress |-> FromBe4(<< 127, 0, 0, 1 >>),
                            RemoteAddress |-> FromBe4(<< 127, 0, 0, 1 >>),
                            LocalPort |-> FromBe2(<< 190, 239 >>),
                            RemotePort |-> FromBe2(<< 222, 173 >>)]
           st == IF apps.capture.did_set_up THEN MachineState(turn)
                 ELSE Udp_listen(MachineState(turn), CaptureID, participants)
           flow == IF ~IsOk(st.res) THEN "Err"
                   ELSE IF apps.capture.message # << >> THEN "EndSimulation"
                   ELSE "Continue"
       IN /\ Commit(turn, st)
          /\ Awoke(CaptureID, flow)
          /\ phase' = IF st.res = "Panic" THEN "crashed" ELSE "tick"
          /\ apps' = [apps EXCEPT !.capture.did_set_up = IsOk(st.res)]
          /\ history' = IF apps.capture.did_set_up THEN history
                        ELSE Append(history, [machine |-> turn, op |-> "Udp.listen",
                                              upstream |-> CaptureID,
                                              participants |-> participants,
                                              res |-> st.res])
          /\ last' = [kind |-> "capture", res |-> st.res, flow |-> flow,
                      message |-> apps.capture.message,
                      did_set_up |-> apps.capture.did_set_up,
                      before |-> Tables(turn), info_before |-> info]
    /\ UNCHANGED << borrows, crawl,
                    dispatch_log, attach, protocols, networks, tick, turn, inbox,
                    flows, ended, injected, published, in_flight, delivered, started >>

NextLoop ==
    \/ Inject
    \/ Internet_run_start
    \/ Machine_accept_incoming
    \/ Protocol_awake
    \/ SendMessage_awake
    \/ Capture_awake
    \/ Machine_drain
    \/ Internet_advance

SpecLoop == Init /\ [][NextLoop]_vars

\* C30: on the one machine running SendMessage and Capture, with no frame
\* from outside, once the second tick is over Capture holds the message
\* "Hello!", whatever the order of the awakes was.
C30_Loopback ==
    (tick > 2 /\ injected = 0) =>
        apps.capture.message = << << 72, 101, 108, 108, 111, 33 >> >>

\* Capture beside an application that listens on Udp: the other application's
\* awake is the Udp listen call of App_awake_udp_listen, Capture's awake is
\* Capture::awake.
NextCapture ==
    \/ Inject
    \/ Internet_run_start
    \/ Machine_accept_incoming
    \/ Protocol_awake
    \/ (App_awake_udp_listen /\ last'.upstream = OtherAppID)
    \/ Capture_awake
    \/ Machine_drain
    \/ Internet_advance

SpecCapture == Init /\ [][NextCapture]_vars

\* C31: an awake of Capture that finds a message stored returns
\* EndSimulation, whether or not its listen call succeeded.
C31_CaptureEnds ==
    (last.kind = "capture" /\ last.message # << >>) =>
        last.flow = "EndSimulation"

\* C32: a Udp listen on an (address, port) pair that Udp has not bound yet
\* returns Ok, also when another port of the same address is bound.
C32_ListenFreePort ==
    (/\ last.kind = "call"
     /\ last.op = "Udp.listen"
     /\ [address |-> last.participants["LocalAddress"],
         port |-> last.participants["LocalPort"]] \notin DOMAIN last.before.udl)
        => last.res = "Ok"

\* C33: a Udp open whose 4-tuple is not in Udp's session table returns Ok,
\* also when a session between the same two addresses on other ports exists.
\* The addresses of the context's info are those of the participants, so that
\* the key Ipv4 reads is the one the caller gave.
C33_OpenFreeTuple ==
    (/\ last.kind = "call"
     /\ last.op = "Udp.open"
     /\ [local_address |-> last.participants["LocalAddress"],
         local_port |-> last.participants["LocalPort"],
         remote_address |-> last.participants["RemoteAddress"],
         remote_port |-> last.participants["RemotePort"]]
            \notin DOMAIN last.before.uds
     /\ {"LocalAddress", "RemoteAddress"} \subseteq DOMAIN last.info_before
     /\ last.info_before["LocalAddress"] = last.participants["LocalAddress"]
     /\ last.info_before["RemoteAddress"] = last.participants["RemoteAddress"])
        => last.res = "Ok"

\* C35: the datagram a Udp session (A, pa, B, pb) sends is looked up at its
\* receiver under (B, pb, A, pa): SendMessage's first awake has opened its
\* session and sent on it, and the frame queued on the Nic is read as
\* Ipv4::demux and Udp::demux read it.
C35_MirrorSymmetry ==
    (last.kind = "send_message" /\ last.res = "Ok" /\ ~last.did_set_up) =>
        \A id \in DOMAIN uds[1] \ DOMAIN last.before.uds :
            LET queue == nic[1][ips[1][uds[1][id].downstream].downstream]
                frame == slice(queue[Len(queue)], 2)
                receiver == Ipv4_demux_info(EmptyControl, take(frame, 20))
                header_bytes == take(slice(frame, 20), 8)
            IN UdpSessionId(receiver["LocalAddress"],
                            UdpDestinationPort(header_bytes),
                            receiver["RemoteAddress"],
                            UdpSourcePort(header_bytes))
                   = UdpSessionId(id.remote_address, id.remote_port,
                                  id.local_address, id.local_port)

\* C36: a frame whose delivery ends in Ipv4's MissingListenBinding or in
\* Udp's MissingSession leaves the session and listen tables of the Nic, of
\* Ipv4 and of Udp as they were before the delivery.
C36_DropLeavesNoTrace ==
    (last.kind = "accept" /\ last.res \in {"MissingListenBinding", "MissingSession"})
        => Tables(last.machine) = last.before

----------------------------------------------------------------------------
\* The Nic alone: the machine of Init, whose Nic is called directly.

\* The protocols that open Nic sessions; Tcp is not in the machine's table.
TapUpstreams == {Ipv4ID, TcpID}

\* Identifiers given to open_active: two network indexes, no index, and an
\* index that is no u8.
TapParticipants ==
    { [NetworkIndex |-> 0], [NetworkIndex |-> 1], EmptyControl, [NetworkIndex |-> 256] }

TapMessages == { << 7 >>, << 7, 9 >> }

\* Frames of other machines: too short, of no NetworkLayer, for Tcp and for Ipv4.
TapFrames == { << >>, << 3 >>, << 4, 0, 7 >>, << 2, 6, 7 >>, << 1, 4, 7 >> }

\* The frames sessions have queued so far.
TapQueuedFrames ==
    { history[k].queued : k \in { k \in 1..Len(history) : history[k].op = "NicSession.send" } }

\* One call on the Nic of machine 1, which leaves st behind; the history
\* keeps its entry, the last step the whole call.
TapCall(st, entry, call) ==
    /\ phase = "loop"
    /\ Len(history) < MaxTapCalls
    /\ Commit(1, st)
    /\ history' = Append(history, entry)
    /\ last' = [kind |-> "tap", call |-> call, res |-> st.res, log |-> st.log,
                before |-> nic[1], info_before |-> info]
    /\ UNCHANGED << borrows, crawl,
                    apps, dispatch_log, attach, protocols, networks, tick, turn, phase,
                    inbox, to_awake, awoken, control_flow, flows, ended, injected,
                    published, in_flight, delivered, started, end_ticks >>

Tap_open_active ==
    \E upstream \in TapUpstreams, participants \in TapParticipants :
        LET st == Nic_open_active(MachineState(1), upstream, participants)
            call == [op |-> "Nic.open_active", upstream |-> upstream,
                     participants |-> participants, session |-> st.ret]
        IN TapCall(st, [op |-> "Nic.open_active"], call)

Tap_open_passive ==
    \E invoker \in TapUpstreams, participants \in TapParticipants :
        LET st == Nic_open_passive(MachineState(1), invoker, participants)
            call == [op |-> "Nic.open_passive", invoker |-> invoker,
                     participants |-> participants]
        IN TapCall(st, [op |-> "Nic.open_passive"], call)

Tap_demux ==
    \E message \in TapFrames \cup TapQueuedFrames :
        LET st == Nic_demux(MachineState(1), message)
        IN TapCall(st, [op |-> "Nic.demux"], [op |-> "Nic.demux", message |-> message])

Tap_send ==
    \E session_id \in DOMAIN nic[1], message \in TapMessages :
        LET st == NicSession_send(MachineState(1), session_id, message)
            call == [op |-> "NicSession.send", session |-> session_id,
                     message |-> message,
                     queued |-> st.nic[session_id][Len(st.nic[session_id])]]
        IN TapCall(st, call, call)

Tap_outgoing ==
    \E session_id \in DOMAIN nic[1] :
        LET st == NicSession_outgoing(MachineState(1), session_id)
            call == [op |-> "NicSession.outgoing", session |-> session_id,
                     returned |-> st.ret]
        IN TapCall(st, call, call)

Tap_accept_incoming ==
    \E message \in TapFrames \cup TapQueuedFrames, network \in NetworkIndexes :
        LET st == Nic_accept_incoming(MachineState(1), message, network)
            call == [op |-> "Nic.accept_incoming", message |-> message,
                     network |-> network]
        IN TapCall(st, [op |-> "Nic.accept_incoming"], call)

NextTap ==
    \/ Tap_open_active
    \/ Tap_open_passive
    \/ Tap_demux
    \/ Tap_send
    \/ Tap_outgoing
    \/ Tap_accept_incoming

SpecTap == Init /\ [][NextTap]_vars

----------------------------------------------------------------------------
\* Calls made on Ipv4 alone, in one context, on a machine that holds Nic, Ipv4,
\* Udp and the two applications (SpecIp).

\* The upstreams of the listen and open_active calls are Udp, an application,
\* and Tcp, which the machine does not hold.  The frames that arrive are
\* well-formed UDP-in-IPv4 frames from 10.0.0.2 and the same frames with
\* version 6 in place of 4.

IpCall(st, call) ==
    /\ phase = "loop"
    /\ Len(history) < MaxIpCalls
    /\ Commit(1, st)
    /\ history' = Append(history, [op |-> call.op])
    /\ last' = [kind |-> "ip", call |-> call, res |-> st.res, log |-> st.log,
                before |-> Tables(1), info_before |-> info]
    /\ UNCHANGED << borrows, crawl,
                    apps, dispatch_log, attach, protocols, networks, tick, turn, phase,
                    inbox, to_awake, awoken, control_flow, flows, ended, injected,
                    published, in_flight, delivered, started, end_ticks >>

Ip_listen ==
    \E upstream \in {UdpID, TcpID, CaptureID}, address \in LocalAddresses :
        LET participants == [LocalAddress |-> address]
        IN IpCall(Ipv4_listen(MachineState(1), upstream, participants),
                  [op |-> "Ipv4.listen", upstream |-> upstream,
                   participants |-> participants])

Ip_open_active ==
    \E upstream \in {UdpID, TcpID, CaptureID}, local \in LocalAddresses, remote \in RemoteAddresses :
        LET participants == [LocalAddress |-> local, RemoteAddress |-> remote]
        IN IpCall(Ipv4_open_active(MachineState(1), upstream, participants),
                  [op |-> "Ipv4.open_active", upstream |-> upstream,
                   participants |-> participants])

\* A send on a session whose downstream is a session of the Nic's table.
Ip_send ==
    \E key \in DOMAIN ips[1], message \in Payloads \cup { << >> } :
        /\ ips[1][key].downstream \in DOMAIN nic[1]
        /\ IpCall(Ipv4Session_send(MachineState(1), key, message),
                  [op |-> "Ipv4Session.send", session |-> key, message |-> message])

Ip_accept_incoming ==
    \E message \in UdpFrames \cup { [frame EXCEPT ![3] = 6 * 16 + 5] : frame \in UdpFrames } :
        IpCall(Nic_accept_incoming(MachineState(1), message, 0),
               [op |-> "Nic.accept_incoming", message |-> message, network |-> 0])

NextIp ==
    \/ Ip_listen
    \/ Ip_open_active
    \/ Ip_send
    \/ Ip_accept_incoming

SpecIp == Init /\ [][NextIp]_vars

----------------------------------------------------------------------------
\* Ipv4Header::from_bytes, the parser of ipv4_parsing.rs, applied to byte
\* strings (SpecParse).

\* u16::carrying_add: the sum modulo 2^16 and the carry out of it.
carrying_add(checksum, value, carry) ==
    LET sum == checksum + value + (IF carry THEN 1 ELSE 0)
    IN [checksum |-> sum % 65536, carry |-> sum >= 65536]

oc_add_u16(acc, value) == carrying_add(acc.checksum, value, acc.carry)

oc_add_u8(acc, a, b) == oc_add_u16(acc, FromBe2(<< a, b >>))

oc_add_u32_half(acc, word) == oc_add_u8(acc, word[1], word[2])

oc_add_u32(acc, word) == oc_add_u8(oc_add_u8(acc, word[1], word[2]), word[3], word[4])

\* The checksum from_bytes computes to compare with a nonzero checksum field.
from_bytes_checksum(base, time_to_live, protocol) ==
    LET a0 == [checksum |-> 0, carry |-> FALSE]
        a1 == oc_add_u32(a0, base[1])
        a2 == oc_add_u32(a1, base[2])
        a3 == oc_add_u8(a2, time_to_live, protocol)
        a4 == oc_add_u32(a3, base[4])
        a5 == oc_add_u32(a4, base[5])
        a6 == oc_add_u16(a5, 0)
    IN IF a6.checksum = 65535 THEN 65535 ELSE 65535 - a6.checksum

\* control_flag_bits & 0b100 != 0
reserved_flag_low(control_flag_bits) == control_flag_bits % 2 # 0

reserved_flag(control_flag_bits) == (control_flag_bits \div 4) % 2 # 0

\* if expected_checksum != 0 { ... if checksum != expected_checksum { Err } }
checksum_mismatch_always(expected_checksum, checksum) == checksum # expected_checksum

checksum_mismatch(expected_checksum, checksum) ==
    expected_checksum # 0 /\ checksum # expected_checksum

\* u32::from_be_bytes(word).into(): the four bytes of an Ipv4Address.
Ipv4Address_from_swapped(word) == U32be(FromBe4(<< word[1], word[2], word[4], word[3] >>))

Ipv4Address_from(word) == U32be(FromBe4(word))

ParseErr(e) == [res |-> e]

Ipv4Header_from_bytes(bytes) ==
    IF Len(bytes) < 20 THEN ParseErr("HeaderTooShort")
    ELSE
    LET base == [i \in 1..5 |-> SubSeq(bytes, 4 * i - 3, 4 * i)]
        version_and_ihl == base[1][1]
        version == version_and_ihl \div 16
        ihl == version_and_ihl % 16
        tos_byte == base[1][2]
        reserved == tos_byte % 4
        total_length == FromBe2(<< base[1][3], base[1][4] >>)
        identification == FromBe2(<< base[2][1], base[2][2] >>)
        flags_and_fragment_offset_bytes == FromBe2(<< base[2][3], base[2][4] >>)
        fragment_offset == flags_and_fragment_offset_bytes % 8192
        control_flag_bits == flags_and_fragment_offset_bytes \div 8192
        time_to_live == base[3][1]
        protocol == base[3][2]
        expected_checksum == FromBe2(<< base[3][3], base[3][4] >>)
        checksum == from_bytes_checksum(base, time_to_live, protocol)
    IN IF version # 4 THEN ParseErr("IncorrectIpv4Version")
       ELSE IF ihl # 5 THEN ParseErr("InvalidHeaderLength")
       ELSE IF reserved # 0 THEN ParseErr("UsedReservedTos")
       ELSE IF reserved_flag(control_flag_bits) THEN ParseErr("UsedReservedFlag")
       ELSE IF checksum_mismatch(expected_checksum, checksum)
            THEN [res |-> "IncorrectChecksum", expected |-> expected_checksum,
                  actual |-> checksum]
       ELSE [res |-> "Ok",
             header |-> [ihl |-> ihl,
                         type_of_service |-> tos_byte,
                         total_length |-> total_length,
                         identification |-> identification,
                         fragment_offset |-> fragment_offset,
                         flags |-> control_flag_bits,
                         time_to_live |-> time_to_live,
                         protocol |-> protocol,
                         checksum |-> expected_checksum,
                         source |-> Ipv4Address_from(base[4]),
                         destination |-> Ipv4Address_from(base[5])]]

\* The byte strings given to the parser: headers put together from a few
\* values of each field, cut or extended to a length of at most MaxParseLen.
\* Each behaviour parses one of them.
ParseVersionIhl == {69, 53, 70, 68}
ParseTos == {0, 1, 252}
ParseTotalLength == {20, 33}
ParseFlagsAndOffset == {0, 16384, 32768, 8193}
ParseDestinations == {2066563929, 2066612223}

HeaderOf(vi, tos, len, id, ff, ck, dst) ==
    << vi, tos >> \o U16be(len) \o U16be(id) \o U16be(ff) \o << 30, 17 >>
    \o U16be(ck) \o U32be(2130706433) \o U32be(dst)

\* The identification that makes the one's-complement sum of the header's
\* words 0xFFFF.
BalancingId(vi, tos, len, ff, dst) ==
    65535 - Fold16(Fold16(SumWords(HeaderOf(vi, tos, len, 0, ff, 0, dst))))

ParseIds(vi, tos, len, ff, dst) == {0, 7, BalancingId(vi, tos, len, ff, dst)}

\* The checksum fields: none, the one a sender computes, and two others.
ParseChecksums(vi, tos, len, id, ff, dst) ==
    LET sent == calc_header_checksum(HeaderOf(vi, tos, len, id, ff, 0, dst))
    IN {0, sent, (sent + 1) % 65536, 65535}

ParseHeaders ==
    UNION { UNION { { HeaderOf(vi, tos, len, id, ff, ck, dst) :
                        ck \in ParseChecksums(vi, tos, len, id, ff, dst) } :
                    id \in ParseIds(vi, tos, len, ff, dst) } :
            vi \in ParseVersionIhl, tos \in ParseTos, len \in ParseTotalLength,
            ff \in ParseFlagsAndOffset, dst \in ParseDestinations }

ParseLengths == {0, 4, 19} \cup (20..MaxParseLen)

ParsePadding == [i \in 1..(MaxParseLen - 20) |-> 0]

Parse_from_bytes ==
    \E header \in ParseHeaders, n \in ParseLengths :
        LET bytes == take(header \o ParsePadding, n)
        IN /\ last = NoStep
           /\ last' = [kind |-> "from_bytes", bytes |-> bytes,
                       out |-> Ipv4Header_from_bytes(bytes)]
           /\ UNCHANGED << borrows, crawl,
                           apps, attach, protocols, nic, ipl, ips, udl, uds, networks,
                           tick, turn, phase, inbox, info, to_awake, awoken,
                           control_flow, flows, ended, injected, history,
                           published, in_flight, delivered, started, end_ticks,
                           dispatch_log >>

\* tests::parses_basic_header: a header that etherparse builds from (payload
\* length, ttl, protocol, source, destination) and writes is parsed.
Parse_round_trip ==
    \E payload_len \in {0, 13, 1000}, ttl \in {0, 30, 255}, protocol \in {6, 17},
       source \in {2130706433, 167772160},
       destination \in ParseDestinations, n \in 20..MaxParseLen :
        LET serial_header == Ipv4HeaderBytes(payload_len, ttl, protocol, source,
                                             destination)
            bytes == take(serial_header \o ParsePadding, n)
        IN /\ last = NoStep
           /\ last' = [kind |-> "round_trip",
                       valid_header |-> [payload_len |-> payload_len,
                                         time_to_live |-> ttl,
                                         protocol |-> protocol,
                                         source |-> source,
                                         destination |-> destination],
                       bytes |-> bytes,
                       out |-> Ipv4Header_from_bytes(bytes)]
           /\ UNCHANGED << borrows, crawl,
                           apps, attach, protocols, nic, ipl, ips, udl, uds, networks,
                           tick, turn, phase, inbox, info, to_awake, awoken,
                           control_flow, flows, ended, injected, history,
                           published, in_flight, delivered, started, end_ticks,
                           dispatch_log >>

NextParse ==
    \/ Parse_from_bytes
    \/ Parse_round_trip

SpecParse == Init /\ [][NextParse]_vars

----------------------------------------------------------------------------
\* Properties of the inbound path (Spec).

RecvEvents(log) == SelectSeq(log, LAMBDA e : e.call = "recv")

\* Position i of the log is a recv reached through Udp::demux.
RecvThroughUdp(log, i) ==
    /\ log[i].call = "recv"
    /\ \E j \in 1..(i - 1) : log[j].call = "demux" /\ log[j].proto = UdpID

\* Call i of the history is a successful Udp listen of app on (address, port).
IsListen(i, m, app, address, port) ==
    /\ history[i].machine = m
    /\ history[i].op = "Udp.listen"
    /\ history[i].upstream = app
    /\ history[i].res = "Ok"
    /\ history[i].participants = [LocalAddress |-> address, LocalPort |-> port]

Listened(m, app, address, port) ==
    \E i \in 1..Len(history) : IsListen(i, m, app, address, port)

\* The machine's only calls so far are app's calls into Udp: app is the one
\* application at work on the stack.
OnlyApplication(m, app) ==
    \A i \in 1..Len(history) :
        history[i].machine = m =>
            /\ history[i].upstream = app
            /\ history[i].op \in {"Udp.listen", "Udp.open"}

\* The last step dispatched a frame to accept_incoming while app, the one
\* application at work, had listened on the frame's destination.
DeliveryCase(app) ==
    /\ last.kind = "accept"
    /\ OnlyApplication(last.machine, app)
    /\ Listened(last.machine, app, FrameDestination(last.message),
                FrameDestinationPort(last.message))

C2_InfoOfFrame ==
    last.kind = "accept" =>
        \A i \in 1..Len(last.log) :
            RecvThroughUdp(last.log, i) =>
                /\ UdpKeys \subseteq DOMAIN last.log[i].info
                /\ last.log[i].info["LocalAddress"] = FrameDestination(last.message)
                /\ last.log[i].info["RemoteAddress"] = FrameSource(last.message)
                /\ last.log[i].info["LocalPort"] = FrameDestinationPort(last.message)
                /\ last.log[i].info["RemotePort"] = FrameSourcePort(last.message)

\* A recv for a frame whose port differs from the one an earlier frame of the
\* tick left in the info.
C2_Witness ==
    /\ last.kind = "accept"
    /\ \E i \in 1..Len(last.log) : RecvThroughUdp(last.log, i)
    /\ Has(last.info_before, "LocalPort")
    /\ last.info_before["LocalPort"] # FrameDestinationPort(last.message)
    /\ Has(last.info_before, "LocalAddress")

\* C3: a frame picked up from the machine's network with index i is given to
\* accept_incoming with index i: the NetworkIndex the upper protocols see is i.
C3_ArrivalIndex ==
    last.kind = "accept" =>
        \A i \in 1..Len(last.log) :
            last.log[i].call \in {"demux", "recv"} =>
                /\ Has(last.log[i].info, "NetworkIndex")
                /\ last.log[i].info["NetworkIndex"] = last.network

----------------------------------------------------------------------------
\* Properties of the session and listen tables (Spec).

\* The last step was a call of one of ops, and the same call with the same
\* identifier had succeeded on the machine before.
RepeatedCall(ops) ==
    /\ last.kind = "call"
    /\ last.op \in ops
    /\ \E i \in 1..(Len(history) - 1) :
          /\ history[i].machine = last.machine
          /\ history[i].op = last.op
          /\ history[i].participants = last.participants
          /\ history[i].res = "Ok"

\* C4: of two open_active calls with identical identifiers (Ipv4: LocalAddress
\* and RemoteAddress; Udp: the two addresses and the two ports) the first
\* succeeds, and the second fails with SessionExists and leaves the session
\* table unchanged.
C4_SessionUnique ==
    RepeatedCall({"Ipv4.open_active", "Udp.open"}) =>
        /\ last.res = "SessionExists"
        /\ Tables(last.machine) = last.before

\* C5: after a successful listen on a local key (Ipv4: LocalAddress; Udp:
\* LocalAddress and LocalPort), a second listen of the same protocol on the
\* same key fails with BindingExists, whatever upstream it names.
C5_BindingExists ==
    RepeatedCall({"Ipv4.listen", "Udp.listen"}) => last.res = "BindingExists"

\* A second listen on a bound key, made by another application than the first.
C5_Witness ==
    /\ RepeatedCall({"Ipv4.listen", "Udp.listen"})
    /\ \E i \in 1..(Len(history) - 1) :
          /\ history[i].op = last.op
          /\ history[i].participants = last.participants
          /\ history[i].res = "Ok"
          /\ history[i].upstream # last.upstream

\* C6: a duplicate Udp.listen on (LocalAddress, LocalPort) does not disturb
\* the first binding: the key still maps to the application of the first
\* successful listen.
C6_FirstBindingKept ==
    \A i \in 1..Len(history) :
        (history[i].op = "Udp.listen" /\ history[i].res = "Ok") =>
            LET key == ListenId(history[i].participants["LocalAddress"],
                                history[i].participants["LocalPort"])
                listen_bindings == udl[history[i].machine]
            IN key \in DOMAIN listen_bindings
                   /\ listen_bindings[key] = history[i].upstream

\* The last step gave Udp::demux a datagram for which Udp held neither a
\* session nor a listen binding.
MissingSessionCase ==
    /\ last.kind = "accept"
    /\ \E i \in 1..Len(last.log) :
          last.log[i].call = "demux" /\ last.log[i].proto = UdpID
    /\ UdpSessionId(FrameDestination(last.message), FrameDestinationPort(last.message),
                    FrameSource(last.message), FrameSourcePort(last.message))
           \notin DOMAIN last.before.uds
    /\ ListenId(FrameDestination(last.message), FrameDestinationPort(last.message))
           \notin DOMAIN last.before.udl

\* C7: for a datagram with neither a matching session nor a matching listen
\* binding, Udp.demux fails with MissingSession, no Udp session is inserted,
\* no recv is called, and the tick goes on: the remaining pending messages are
\* still to be dispatched and every protocol is still to be awoken.
C7_MissingSession ==
    MissingSessionCase =>
        /\ \E i \in 1..Len(last.log) :
              last.log[i] = [call |-> "return", proto |-> UdpID, res |-> "MissingSession"]
        /\ uds[last.machine] = last.before.uds
        /\ RecvEvents(last.log) = << >>
        /\ phase = "tick"
        /\ inbox = last.rest
        /\ to_awake = protocols[last.machine]

\* The datagram is dropped with a message still pending behind it, on a
\* machine where accept_incoming returns the error.
C7_Witness ==
    /\ MissingSessionCase
    /\ last.res = "MissingSession"
    /\ last.rest # << >>

----------------------------------------------------------------------------
\* Properties of the tick (Spec).

\* C10: in one run of Machine.awake every protocol of the machine is awoken
\* exactly once, also after an awake returned EndSimulation or an error, and
\* the tick returns EndSimulation exactly when an awake returned it; an error
\* counts as Continue.
C10_EveryProtocolAwoken ==
    /\ phase = "tick" =>
          \A p \in protocols[turn] :
              Len(awoken[p]) = IF p \in to_awake THEN 0 ELSE 1
    /\ last.kind = "drain" =>
          /\ \A p \in protocols[last.machine] : Len(last.awoken[p]) = 1
          /\ (last.flow = "EndSimulation") <=>
                 (\E p \in protocols[last.machine] : last.awoken[p][1] = "EndSimulation")

\* A tick ends in which one awake returned an error, another EndSimulation.
C10_Witness ==
    /\ last.kind = "drain"
    /\ \E p, q \in protocols[last.machine] :
          /\ last.awoken[p] = << "Err" >>
          /\ last.awoken[q] = << "EndSimulation" >>
    /\ last.flow = "EndSimulation"

----------------------------------------------------------------------------
\* Properties of the run loop and the networks (SpecNet).

\* C8: if a protocol's awake on any machine returns EndSimulation during tick
\* T, the run loop starts no tick T+1: no machine's awake is called after
\* tick T.
C8_NoTickAfterEnd ==
    \A s \in started : \A t \in end_ticks : s.tick <= t

\* The first machine's application ended the simulation in tick 1; the other
\* machines had their tick 1, and the loop has stopped before tick 2.
C8_Witness ==
    /\ end_ticks = {1}
    /\ flows[1] = "none" /\ ended /\ tick = 2 /\ phase = "loop"
    /\ started = { [machine |-> m, tick |-> 1] : m \in Machines }
    /\ Cardinality(Machines) > 1

AttachedTo(m, n) == \E i \in 1..Len(attach[m]) : attach[m][i] = n

\* C9: a message machine A publishes on network N during tick T is never
\* delivered to A itself, is not delivered to anyone during tick T, and is
\* delivered to every other machine attached to N during tick T+1.
C9_TickBoundary ==
    /\ \A d \in delivered : \A p \in published : p.message # d.message
    /\ \A d \in delivered :
          \E p \in in_flight :
              p.message = d.message /\ p.from # d.to /\ AttachedTo(d.to, p.network)
    /\ phase = "advance" =>
          \A p \in in_flight : \A m \in Machines \ {p.from} :
              AttachedTo(m, p.network) =>
                  [message |-> p.message, to |-> m] \in delivered

\* Tick T+1 has run: a message published in tick T on a network with two other
\* machines has reached both, while its sender has published another one.
C9_Witness ==
    /\ phase = "advance"
    /\ \E p \in in_flight :
          /\ Cardinality({ d \in delivered : d.message = p.message }) = 2
          /\ \E q \in published : q.from = p.from

----------------------------------------------------------------------------
\* Properties of the order of a tick (Spec).

\* The messages of a dispatch log, without the results.
Offered(dispatched) ==
    [i \in 1..Len(dispatched) |->
        [network |-> dispatched[i].network, message |-> dispatched[i].message]]

\* C11: an error of accept_incoming for one pending message does not abort the
\* tick: the other pending messages are still given to accept_incoming, in
\* arrival order, and the awake and drain steps still run.
C11_ErrorDoesNotAbort ==
    /\ phase = "tick" =>
          Offered(dispatch_log.dispatched) \o inbox = dispatch_log.arrived
    /\ (last.kind = "accept" /\ ~IsOk(last.res)) =>
          /\ phase = "tick"
          /\ inbox = last.rest
          /\ to_awake = protocols[last.machine]
    /\ last.kind = "drain" =>
          /\ Offered(last.dispatched) = last.arrived
          /\ \A p \in protocols[last.machine] : Len(last.awoken[p]) = 1

\* A tick is drained in which the first of two pending messages failed and
\* the second was delivered.
C11_Witness ==
    /\ last.kind = "drain"
    /\ Len(last.dispatched) = 2
    /\ ~IsOk(last.dispatched[1].res)
    /\ IsOk(last.dispatched[2].res)

\* C14: in one Machine.awake every protocol's awake comes after all of the
\* tick's pending messages have been dispatched through accept_incoming: no
\* message is dispatched after an awake of the same tick.
C14_AwakeAfterDispatch ==
    /\ (phase = "tick" /\ inbox # << >>) =>
          /\ to_awake = protocols[turn]
          /\ \A p \in protocols[turn] : awoken[p] = << >>
    /\ last.kind \in {"awake", "call"} =>
          Offered(dispatch_log.dispatched) = dispatch_log.arrived

\* An application makes a call in a tick that had two pending messages.
C14_Witness ==
    /\ last.kind = "call"
    /\ Len(dispatch_log.dispatched) = 2
    /\ Len(dispatch_log.arrived) = 2

----------------------------------------------------------------------------
\* Properties of the drain (SpecDrain).

\* The messages queued on the sessions of network index i as a drain begins.
QueuedOn(queued, i) ==
    UNION { { queued[id][j] : j \in 1..Len(queued[id]) } :
            id \in { id \in DOMAIN queued : id.network = i } }

\* C12: after Machine.awake every message a Tap session queued during the tick
\* has been enqueued exactly once, with address Broadcast, on the attached
\* network of the session's network index, also when several sessions share
\* a network index; the drain loses and duplicates nothing.
C12_DrainComplete ==
    last.kind = "drain" =>
        \A i \in 0..(Len(attach[last.machine]) - 1) :
            LET sent == last.sent[attach[last.machine][i + 1]]
            IN /\ \A x \in QueuedOn(last.queued, i) :
                      Cardinality({ k \in 1..Len(sent) : sent[k].message = x }) = 1
               /\ \A k \in 1..Len(sent) :
                      /\ sent[k].message \in QueuedOn(last.queued, i)
                      /\ sent[k].address = "Broadcast"

RECURSIVE SendsFrom(_, _, _, _)
\* The messages of the send calls k.. of the history made on machine m for
\* network index i that were queued as the drain began, in call order.
SendsFrom(k, m, i, queued) ==
    IF k > Len(history) THEN << >>
    ELSE LET h == history[k]
             message == with_header(SendMessageOf(m, k - 1), ProtocolIdBytes(h.upstream))
         IN (IF /\ h.machine = m
                /\ h.op = "NicSession.send"
                /\ h.participants["NetworkIndex"] = i
                /\ message \in QueuedOn(queued, i)
             THEN << message >> ELSE << >>)
            \o SendsFrom(k + 1, m, i, queued)

\* C13: the messages a machine sends on a network during one tick appear on
\* that network in the order of their send calls, also when they were sent
\* through different Tap sessions of that network.
C13_SendOrder ==
    last.kind = "drain" =>
        \A i \in 0..(Len(attach[last.machine]) - 1) :
            LET sent == last.sent[attach[last.machine][i + 1]]
            IN [k \in 1..Len(sent) |-> sent[k].message]
                   = SendsFrom(1, last.machine, i, last.queued)

----------------------------------------------------------------------------
\* Properties of the Nic (SpecTap).

\* The last step was the call op on the Nic.
TapStep(op) == last.kind = "tap" /\ last.call.op = op

\* C15: Tap sessions are keyed by (upstream, network index).  open_active with
\* a key of the table returns the session there, without failing, without a
\* second session and with its queued messages kept; with a new key it makes
\* exactly one session; without a u8 NetworkIndex it fails and makes nothing.
C15_OpenActive ==
    TapStep("Nic.open_active") =>
        LET participants == last.call.participants
        IN IF Has(participants, "NetworkIndex") /\ participants["NetworkIndex"] \in 0..255
           THEN LET id == NicSessionId(last.call.upstream, participants["NetworkIndex"])
                IN /\ last.res = "Ok"
                   /\ last.call.session = id
                   /\ IF id \in DOMAIN last.before
                      THEN nic[1] = last.before
                      ELSE /\ DOMAIN nic[1] = DOMAIN last.before \cup {id}
                           /\ nic[1][id] = << >>
                           /\ \A other \in DOMAIN last.before :
                                  nic[1][other] = last.before[other]
           ELSE /\ last.res = "IdentifierMissingKey"
                /\ nic[1] = last.before

\* open_active names a session that holds a queued message.
C15_Witness ==
    /\ TapStep("Nic.open_active")
    /\ last.res = "Ok"
    /\ last.call.session \in DOMAIN last.before
    /\ last.before[last.call.session] # << >>

\* C16: Tap.open_passive and Tap.demux return an error (PassiveOpen, Demux)
\* for every input and leave the session table and the outgoing queues as
\* they were.
C16_PassiveAndDemuxFail ==
    /\ TapStep("Nic.open_passive") =>
          last.res = "PassiveOpen" /\ nic[1] = last.before /\ last.log = << >>
    /\ TapStep("Nic.demux") =>
          last.res = "Demux" /\ nic[1] = last.before /\ last.log = << >>

\* demux is given a frame a session of the table has queued.
C16_Witness ==
    /\ TapStep("Nic.demux")
    /\ \E id \in DOMAIN nic[1] :
          \E j \in 1..Len(nic[1][id]) : nic[1][id][j] = last.call.message
    /\ ValidLayerByte(last.call.message[1])

RECURSIVE QueuedSince(_, _)
\* The frames the send calls k.. of the history queued on a session, in order.
QueuedSince(k, id) ==
    IF k > Len(history) THEN << >>
    ELSE (IF history[k].op = "NicSession.send" /\ history[k].session = id
          THEN << history[k].queued >> ELSE << >>)
         \o QueuedSince(k + 1, id)

RECURSIVE ReturnedSince(_, _)
\* What the outgoing() calls k.. of the history on a session returned, in order.
ReturnedSince(k, id) ==
    IF k > Len(history) THEN << >>
    ELSE (IF history[k].op = "NicSession.outgoing" /\ history[k].session = id
          THEN history[k].returned ELSE << >>)
         \o ReturnedSince(k + 1, id)

\* C17: a session's outgoing() returns the messages sent on it since the
\* previous outgoing(), in send order, and leaves the queue empty: a repeated
\* outgoing() returns the empty list, and every sent message is returned by
\* exactly one outgoing().
C17_OutgoingTakes ==
    /\ \A id \in DOMAIN nic[1] :
          ReturnedSince(1, id) \o nic[1][id] = QueuedSince(1, id)
    /\ TapStep("NicSession.outgoing") =>
          /\ last.call.returned = last.before[last.call.session]
          /\ nic[1][last.call.session] = << >>

\* outgoing() is called again right after an outgoing() that returned a
\* message, and returns none.
C17_Witness ==
    /\ TapStep("NicSession.outgoing")
    /\ last.call.returned = << >>
    /\ Len(history) >= 2
    /\ history[Len(history) - 1].op = "NicSession.outgoing"
    /\ history[Len(history) - 1].session = last.call.session
    /\ Len(history[Len(history) - 1].returned) = 1

C19_AcceptErrors ==
    TapStep("Nic.accept_incoming") =>
        LET frame == last.call.message
            rejected == /\ last.log = << >>
                        /\ info = last.info_before
        IN /\ Len(frame) < 2 => (last.res = "HeaderLength" /\ rejected)
           /\ (Len(frame) >= 2 /\ frame[1] >= 4) =>
                  (last.res = "InvalidProtocolId" /\ rejected)
           /\ (Len(frame) >= 2 /\ frame[1] < 4
               /\ ProtocolId(NetworkLayers[frame[1] + 1], frame[2]) \notin protocols[1]) =>
                  (last.res = "ProtocolNotFound" /\ rejected)

\* A frame for Tcp, which the machine does not hold, comes in on another
\* network than the one the info names.
C19_Witness ==
    /\ TapStep("Nic.accept_incoming")
    /\ last.res = "ProtocolNotFound"
    /\ Has(last.info_before, "NetworkIndex")
    /\ last.info_before["NetworkIndex"] # last.call.network

----------------------------------------------------------------------------
\* Properties of the IPv4 header parser (SpecParse).

\* The checksum of the header b as the wire format defines it: the complement
\* of the one's-complement sum of its words with the checksum field taken as
\* zero, 0x0000 written as 0xFFFF.
WireChecksum(b) ==
    LET zeroed == [i \in 1..20 |-> IF i \in {11, 12} THEN 0 ELSE b[i]]
        sum == Fold16(Fold16(SumWords(zeroed)))
    IN IF sum = 65535 THEN 65535 ELSE 65535 - sum

\* The result the wire format gives the bytes b: the error of the first
\* condition that fails, in the order length, version, IHL, ToS, flag,
\* checksum.
ParseVerdict(b) ==
    IF Len(b) < 20 THEN "HeaderTooShort"
    ELSE IF b[1] \div 16 # 4 THEN "IncorrectIpv4Version"
    ELSE IF b[1] % 16 # 5 THEN "InvalidHeaderLength"
    ELSE IF b[2] % 4 # 0 THEN "UsedReservedTos"
    ELSE IF b[7] \div 128 # 0 THEN "UsedReservedFlag"
    ELSE IF FromBe2(SubSeq(b, 11, 12)) \notin {0, WireChecksum(b)} THEN "IncorrectChecksum"
    ELSE "Ok"

\* C20: Ipv4Header::from_bytes succeeds exactly on an input of at least 20
\* bytes with version 4, IHL 5, the low two ToS bits zero, the reserved flag
\* clear and a checksum field that is zero or the recomputed checksum;
\* otherwise it fails with the error of the condition that fails first, and
\* on success each parsed field is the big-endian field of the header.
C20_FromBytes ==
    last.kind = "from_bytes" =>
        LET b == last.bytes
            out == last.out
        IN /\ out.res = ParseVerdict(b)
           /\ out.res = "Ok" <=>
                  /\ Len(b) >= 20
                  /\ b[1] \div 16 = 4
                  /\ b[1] % 16 = 5
                  /\ b[2] % 4 = 0
                  /\ b[7] \div 128 = 0
                  /\ \/ b[11] = 0 /\ b[12] = 0
                     \/ b[11] * 256 + b[12] = WireChecksum(b)
           /\ out.res = "Ok" =>
                  /\ out.header.ihl = b[1] % 16
                  /\ out.header.type_of_service = b[2]
                  /\ out.header.total_length = b[3] * 256 + b[4]
                  /\ out.header.identification = b[5] * 256 + b[6]
                  /\ out.header.flags = b[7] \div 32
                  /\ out.header.fragment_offset = (b[7] % 32) * 256 + b[8]
                  /\ out.header.time_to_live = b[9]
                  /\ out.header.protocol = b[10]
                  /\ out.header.checksum = b[11] * 256 + b[12]
                  /\ out.header.source = SubSeq(b, 13, 16)
                  /\ out.header.destination = SubSeq(b, 17, 20)

\* A header longer than 20 bytes with a verified checksum, a nonzero
\* identification and the more-fragments flag has been parsed.
C20_Witness ==
    /\ last.kind = "from_bytes"
    /\ last.out.res = "Ok"
    /\ Len(last.bytes) > 20
    /\ last.out.header.checksum # 0
    /\ last.out.header.identification # 0
    /\ last.out.header.flags = 1
    /\ last.out.header.fragment_offset = 1

\* The input b is at least a whole header and passes the tests made before
\* the checksum: version, IHL, reserved ToS bits and reserved flag.
ReachesChecksum(b) ==
    /\ Len(b) >= 20
    /\ b[1] \div 16 = 4
    /\ b[1] % 16 = 5
    /\ b[2] % 4 = 0
    /\ b[7] \div 128 = 0

\* C21: for a header with a nonzero checksum field that reaches the checksum
\* test, the value the parser recomputes is the complement of the
\* one's-complement sum of the nine other words, 0x0000 written as 0xFFFF;
\* the header is accepted exactly when the field is that value, and
\* otherwise fails with IncorrectChecksum{expected = field, actual =
\* recomputed}.
C21_ChecksumVerified ==
    (/\ last.kind = "from_bytes"
     /\ ReachesChecksum(last.bytes)
     /\ FromBe2(SubSeq(last.bytes, 11, 12)) # 0) =>
        LET field == FromBe2(SubSeq(last.bytes, 11, 12))
            recomputed == WireChecksum(last.bytes)
        IN /\ last.out.res = "Ok" <=> field = recomputed
           /\ field # recomputed =>
                  last.out = [res |-> "IncorrectChecksum", expected |-> field,
                              actual |-> recomputed]

\* A 20-byte header whose words sum to 0xFFFF, so that the complemented sum
\* is 0x0000, has been accepted with a checksum field of 0xFFFF.
C21_Witness ==
    /\ last.kind = "from_bytes"
    /\ Len(last.bytes) = 20
    /\ ReachesChecksum(last.bytes)
    /\ FromBe2(SubSeq(last.bytes, 11, 12)) = 65535
    /\ Fold16(Fold16(SumWords([i \in 1..20 |->
                         IF i \in {11, 12} THEN 0 ELSE last.bytes[i]]))) = 65535
    /\ last.out.res = "Ok"

\* C22: a header whose checksum field is 0 and whose version, IHL, reserved
\* ToS bits and reserved flag are valid is parsed successfully whatever its
\* other bytes are; IncorrectChecksum is not returned for it.
C22_ChecksumOptOut ==
    (/\ last.kind = "from_bytes"
     /\ ReachesChecksum(last.bytes)
     /\ FromBe2(SubSeq(last.bytes, 11, 12)) = 0) =>
        /\ last.out.res = "Ok"
        /\ last.out.header.checksum = 0

\* A 20-byte header with a checksum field of 0, a nonzero identification, a
\* total length of 33 and a fragment offset has been parsed.
C22_Witness ==
    /\ last.kind = "from_bytes"
    /\ Len(last.bytes) = 20
    /\ ReachesChecksum(last.bytes)
    /\ FromBe2(SubSeq(last.bytes, 11, 12)) = 0
    /\ last.out.res = "Ok"
    /\ last.out.header.identification = 7
    /\ last.out.header.total_length = 33
    /\ last.out.header.fragment_offset = 1

\* C23: a header built from (payload length, ttl, protocol, source,
\* destination) with version 4, IHL 5 and its checksum computed, once
\* serialized, is parsed successfully by Ipv4Header::from_bytes, and the
\* parsed fields are those of the header that was built.
C23_RoundTrip ==
    last.kind = "round_trip" =>
        LET valid_header == last.valid_header
            parsed == last.out.header
        IN /\ last.out.res = "Ok"
           /\ parsed.ihl = 5
           /\ parsed.total_length = valid_header.payload_len + 20
           /\ parsed.identification = 0
           /\ parsed.fragment_offset = 0
           /\ parsed.flags = 2
           /\ parsed.time_to_live = valid_header.time_to_live
           /\ parsed.protocol = valid_header.protocol
           /\ parsed.checksum = FromBe2(SubSeq(last.bytes, 11, 12))
           /\ parsed.checksum = WireChecksum(last.bytes)
           /\ parsed.source = U32be(valid_header.source)
           /\ parsed.destination = U32be(valid_header.destination)

\* The header of a 13-byte payload from 127.0.0.1 to 123.45.67.89 with ttl 30
\* and protocol 17 (the one of the test) has been parsed.
C23_Witness ==
    /\ last.kind = "round_trip"
    /\ last.valid_header = [payload_len |-> 13, time_to_live |-> 30, protocol |-> 17,
                            source |-> 2130706433, destination |-> 2066563929]
    /\ Len(last.bytes) = 20
    /\ last.out.res = "Ok"
    /\ last.out.header.checksum # 0

----------------------------------------------------------------------------
\* Properties of Ipv4 called alone (SpecIp).

IpStep(op) == last.kind = "ip" /\ last.call.op = op

\* C24: Ipv4Session.send on a session whose upstream is Transport/17 or
\* Transport/6 passes exactly one message to the downstream session's send:
\* a 20-byte header with TTL 30, protocol 17 or 6, the session's local
\* address as source and its remote address as destination, then the
\* payload unchanged.  On a session of any other upstream it fails with
\* UnknownUpstreamProtocol and no Tap queue changes.
C24_SendEncodesUpstream ==
    IpStep("Ipv4Session.send") =>
        LET key == last.call.session
            session == last.before.ips[key]
            before == last.before.nic[session.downstream]
            after == nic[1][session.downstream]
            passed == slice(after[Len(after)], 2)
        IN IF session.upstream \in {ProtocolId("Transport", 17), ProtocolId("Transport", 6)}
           THEN /\ last.res = "Ok"
                /\ Len(after) = Len(before) + 1
                /\ SubSeq(after, 1, Len(before)) = before
                /\ \A id \in DOMAIN nic[1] :
                       id # session.downstream => nic[1][id] = last.before.nic[id]
                /\ Len(passed) = 20 + Len(last.call.message)
                /\ passed[9] = 30
                /\ passed[10] = session.upstream.identifier
                /\ SubSeq(passed, 13, 16) = U32be(key.local)
                /\ SubSeq(passed, 17, 20) = U32be(key.remote)
                /\ slice(passed, 20) = last.call.message
           ELSE /\ last.res = "UnknownUpstreamProtocol"
                /\ nic[1] = last.before.nic

\* A session whose upstream is Tcp has sent a payload that is not empty.
C24_Witness ==
    /\ IpStep("Ipv4Session.send")
    /\ last.before.ips[last.call.session].upstream = TcpID
    /\ last.call.message # << >>
    /\ last.res = "Ok"

\* C25: Ipv4.open_active takes the connection identifier from the
\* LocalAddress and RemoteAddress of its participants: the session it
\* creates is keyed by exactly these, and the call fails with
\* MissingSourceAddress or MissingDestinationAddress exactly when the
\* participants lack the key, whatever the context info holds.
C25_KeyFromParticipants ==
    IpStep("Ipv4.open_active") =>
        LET participants == last.call.participants
            key == Identifier(participants["LocalAddress"], participants["RemoteAddress"])
        IN /\ last.res = "MissingSourceAddress" <=> ~Has(participants, "LocalAddress")
           /\ last.res = "MissingDestinationAddress" <=>
                  Has(participants, "LocalAddress") /\ ~Has(participants, "RemoteAddress")
           /\ last.res = "Ok" =>
                  /\ key \notin DOMAIN last.before.ips
                  /\ DOMAIN ips[1] = DOMAIN last.before.ips \cup {key}

\* The calls the log holds into the demux of upstream: Udp's demux, or the
\* recv an application's demux ends in.
UpstreamCalls(log, upstream) ==
    SelectSeq(log, LAMBDA e : e.call \in {"demux", "recv"} /\ e.proto = upstream)

\* The last step gave Ipv4.demux a well-formed frame, of version 4.
IpFrameStep == IpStep("Nic.accept_incoming") /\ last.call.message[3] = 4 * 16 + 5

C27_Version6Rejected ==
    (IpStep("Nic.accept_incoming") /\ last.call.message[3] = 6 * 16 + 5) =>
        /\ last.res = "ReadError"
        /\ Tables(1) = last.before
        /\ \A key \in {"LocalAddress", "RemoteAddress"} :
               /\ Has(info, key) <=> Has(last.info_before, key)
               /\ Has(info, key) => info[key] = last.info_before[key]
        /\ \A i \in 1..Len(last.log) : last.log[i].proto = Ipv4ID

\* A frame of version 6 has arrived for a destination that an application
\* listens on, from a source that has no session, in a context without
\* addresses.
C27_Witness ==
    /\ IpStep("Nic.accept_incoming")
    /\ last.call.message[3] = 6 * 16 + 5
    /\ FrameDestination(last.call.message) \in DOMAIN last.before.ipl
    /\ last.before.ipl[FrameDestination(last.call.message)] = CaptureID
    /\ last.before.ips = EmptyMap
    /\ ~Has(last.info_before, "LocalAddress")
    /\ last.res = "ReadError"

----------------------------------------------------------------------------
\* Properties of the session tables (Spec).

\* The last step dispatched a frame that reached Udp.demux.
UdpDemuxStep == last.kind = "accept" /\ Len(UpstreamCalls(last.log, UdpID)) > 0

\* C28: when the 4-tuple (LocalAddress, destination port, RemoteAddress,
\* source port) of an inbound datagram has no Udp session and (LocalAddress,
\* destination port) has a listen binding to an upstream U, Udp.demux inserts
\* exactly one session under the 4-tuple, with upstream U and the Ipv4
\* session that called demux as downstream, and delivers the payload to it;
\* a later datagram with the same 4-tuple goes to that session and the table
\* does not grow.
C28_UdpPassiveOpen ==
    UdpDemuxStep =>
        LET frame == last.message
            session_id == UdpSessionId(FrameDestination(frame), FrameDestinationPort(frame),
                                       FrameSource(frame), FrameSourcePort(frame))
            listen_id == ListenId(FrameDestination(frame), FrameDestinationPort(frame))
            before == last.before.uds
            after == uds[last.machine]
        IN /\ (session_id \notin DOMAIN before /\ listen_id \in DOMAIN last.before.udl) =>
                  /\ DOMAIN after = DOMAIN before \cup {session_id}
                  /\ \A key \in DOMAIN before : after[key] = before[key]
                  /\ after[session_id] =
                         [upstream |-> last.before.udl[listen_id],
                          downstream |-> Identifier(FrameDestination(frame),
                                                    FrameSource(frame))]
                  /\ Len(RecvEvents(last.log)) = 1
                  /\ RecvEvents(last.log)[1].proto = last.before.udl[listen_id]
                  /\ RecvEvents(last.log)[1].message = FramePayload(frame)
           /\ session_id \in DOMAIN before =>
                  /\ after = before
                  /\ Len(RecvEvents(last.log)) = 1
                  /\ RecvEvents(last.log)[1].proto = before[session_id].upstream
                  /\ RecvEvents(last.log)[1].message = FramePayload(frame)

\* On a machine where no session was opened actively, a second datagram with
\* the 4-tuple of an earlier one has been delivered.
C28_Witness ==
    /\ UdpDemuxStep
    /\ \A i \in 1..Len(history) : history[i].op \notin {"Udp.open", "Ipv4.open_active"}
    /\ UdpSessionId(FrameDestination(last.message), FrameDestinationPort(last.message),
                    FrameSource(last.message), FrameSourcePort(last.message))
           \in DOMAIN last.before.uds
    /\ Len(RecvEvents(last.log)) = 1
    /\ uds[last.machine] = last.before.uds

\* C29: over every step of the machine (open_active, listen, demux, awake,
\* drain), a key of the session table of Tap, Ipv4 or Udp stays in the table
\* and keeps mapping to the same session: no step removes or replaces one.
C29_SessionsLive ==
    [][\A m \in Machines :
          /\ \A key \in DOMAIN nic[m] : key \in DOMAIN nic'[m]
          /\ \A key \in DOMAIN ips[m] :
                 key \in DOMAIN ips'[m] /\ ips'[m][key] = ips[m][key]
          /\ \A key \in DOMAIN uds[m] :
                 key \in DOMAIN uds'[m] /\ uds'[m][key] = uds[m][key]]_vars

\* With a session in each of the three tables, a frame has made a further
\* Udp session, and the machine has gone on into a later tick.
C29_Witness ==
    /\ tick > 1
    /\ nic[1] # EmptyMap
    /\ ips[1] # EmptyMap
    /\ Cardinality(DOMAIN uds[1]) > 1
    /\ \E key \in DOMAIN ips[1] : ips[1][key].downstream \in DOMAIN nic[1]

====
